---------------------------- MODULE Spec2Model ----------------------------
(***************************************************************************)
(* A model of the Logo interpreter of turtle-world (src/src/logo.js):      *)
(* the tokenizer and parser, the tree-walking evaluator written as async   *)
(* functions, and the pause / continue / break protocol of class           *)
(* Interpreter.                                                            *)
(*                                                                         *)
(* JavaScript strings are sequences of one-character strings, so that      *)
(* value[0], value.substr(1) and the regular expressions of the source     *)
(* (which all look at one character) are computed as the code computes     *)
(* them.  Every JavaScript value is a record tagged by its typeof.         *)
(*                                                                         *)
(* Every async function activation is a frame of `stack`, and Step runs    *)
(* the topmost activation from one await to the next.  The host (pause,    *)
(* continue, break, execute, timers) acts between two steps, as host code  *)
(* may run between two ticks of the microtask queue.                       *)
(***************************************************************************)
EXTENDS Integers, Sequences, FiniteSets, TLC

VARIABLES
    logo,        \* the Interpreter instance: its fields (constructor, 949-974)
    heap,        \* the Scope objects ever created, by identity
    stack,       \* the chain of pending async activations, innermost last
    ret,         \* the completion delivered to the innermost activation
    timer,       \* the setTimeout of a pending `wait`
    outcome,     \* how the promise of the last accepted execute() settled
    hostResult,  \* what the last host call (execute/pause/continue/break) did
    calls,       \* history: the procedures invoked in this run, with arguments
    run,         \* history: what the host did to this run
    start,       \* history: the state in which this run was started
    lists        \* the List records ever created, by identity, and a ListBuilder

vars == <<logo, heap, stack, ret, timer, outcome, hostResult, calls, run, start,
          lists>>

-----------------------------------------------------------------------------
(* Bounds of the model. *)

\* execute() calls accepted on one Interpreter instance
MaxRuns == 1
\* pause() calls accepted on one Interpreter instance
MaxPauses == 2
\* steps from one await to the next that an evaluation takes without a halt
MaxSteps == 200
\* the calls of execute() on one interpreter that is left to itself
MaxPrograms == 2
\* the List records there are at most, List.empty among them
MaxNodes == 4

-----------------------------------------------------------------------------
(* Characters and strings. *)

Digit == {"0", "1", "2", "3", "4", "5", "6", "7", "8", "9"}
Letter == {"a", "b", "c", "d", "e", "f", "g", "h", "i", "j", "k", "l", "m",
           "n", "o", "p", "q", "r", "s", "t", "u", "v", "w", "x", "y", "z"}

\* \w of a JavaScript regular expression (lower case letters only: the
\* sources of this model use no capitals)
WordClass == Letter \cup Digit \cup {"_"}

\* `undefined` handed to a state machine handler at the end of the input
EOF == "EOF"
\* the same, where the items are tokens
NoToken == <<EOF>>

DigitValue(c) ==
    CASE c = "0" -> 0 [] c = "1" -> 1 [] c = "2" -> 2 [] c = "3" -> 3
      [] c = "4" -> 4 [] c = "5" -> 5 [] c = "6" -> 6 [] c = "7" -> 7
      [] c = "8" -> 8 [] c = "9" -> 9

-----------------------------------------------------------------------------
(* JavaScript values. *)

Undefined == [t |-> "undefined"]
NaN == [t |-> "NaN"]
Num(n) == [t |-> "number", n |-> n]
\* a number that is no integer: m / 10^e, with m no multiple of 10
Frac(m, e) == [t |-> "fraction", m |-> m, e |-> e]
Str(s) == [t |-> "string", s |-> s]
Bool(b) == [t |-> "boolean", b |-> b]
Lst(l) == [t |-> "object", l |-> l]
\* a builtin or host-bound function, known by its name
Native(name) == [t |-> "function", f |-> [native |-> TRUE, name |-> name,
                    argNames |-> <<>>, body |-> <<>>, parentScope |-> 0]]

isNumber(val) == val.t \in {"number", "fraction", "NaN"}
isString(val) == val.t = "string"
isBoolean(val) == val.t = "boolean"
isFunction(val) == val.t = "function"
isList(val) == val.t = "object"

\* token.match(/^\w[\w\d_-]*/): the rest of the pattern may match nothing,
\* so only the first character decides
isWord(token) == isString(token) /\ token.s # <<>> /\ token.s[1] \in WordClass

-----------------------------------------------------------------------------
(* StateMachine.run (406-436), specialised to the two machines that use it. *)
(* A handler that returns nothing leaves state "" (falsy); a handler that   *)
(* throws sets err.                                                         *)

\* what run() makes of the handler's answer to one item of the input
afterItem(m) ==
    IF m.err # "" THEN m
    ELSE IF m.state = "" THEN [m EXCEPT !.err = "Error"]
    ELSE m

\* what run() makes of the handler's answer to the end of the input
afterEnd(m) ==
    IF m.err # "" THEN m
    ELSE IF m.state # "end" THEN [m EXCEPT !.err = "Error"]
    ELSE m

-----------------------------------------------------------------------------
(* Interpreter.tokenize (1047-1260). *)

reSpace == {" ", "\t", "\n", "\r"}
reNewline == {"\n", "\r"}
reWordStart == WordClass
reWord == WordClass \cup {"-"}
reSign == {"-", "+"}

\* c.match(re) with c the `undefined` of the end of input throws TypeError
matchOrThrow(m, c, next) ==
    IF c = EOF THEN [m EXCEPT !.err = "TypeError"] ELSE next

tokPush(m) == [m EXCEPT !.tokens = Append(@, m.token)]
tokAdd(m, c, state) == [m EXCEPT !.token = Append(@, c), !.state = state]

tokenizeStart(m, c) ==
    IF c = EOF THEN [m EXCEPT !.state = "end"]
    ELSE IF c \in reSpace THEN [m EXCEPT !.state = "start"]
    ELSE IF c = ";" THEN [m EXCEPT !.state = "comment"]
    ELSE IF c = "\"" THEN [m EXCEPT !.token = <<c>>, !.state = "string"]
    ELSE IF c = ":" THEN [m EXCEPT !.token = <<c>>, !.state = "word"]
    ELSE IF c \in reWordStart THEN [m EXCEPT !.token = <<c>>, !.state = "word"]
    ELSE IF c \in reSign THEN [m EXCEPT !.token = <<c>>, !.state = "numberSign"]
    ELSE IF c \in Digit THEN [m EXCEPT !.token = <<c>>, !.state = "numberDigit"]
    ELSE IF c \in {"(", ")", "[", "]"}
         THEN [m EXCEPT !.tokens = Append(@, <<c>>), !.state = "start"]
    ELSE [m EXCEPT !.state = ""]

\* the string handler (1137-1151): the literal runs to the closing quote
tokenizeString(m, c) ==
    matchOrThrow(m, c,
        IF c = "\"" THEN [tokPush(m) EXCEPT !.state = "start"]
        ELSE IF c = "\\" THEN [m EXCEPT !.state = "stringEscape"]
        ELSE tokAdd(m, c, "string"))

tokenizeHandler(m, c) ==
    CASE m.state = "start" -> tokenizeStart(m, c)
      [] m.state = "comment" ->
            IF c = EOF THEN [m EXCEPT !.state = "end"]
            ELSE IF c \in reNewline THEN [m EXCEPT !.state = "start"]
            ELSE [m EXCEPT !.state = "comment"]
      [] m.state = "string" -> tokenizeString(m, c)
      [] m.state = "stringEscape" ->
            matchOrThrow(m, c,
                IF c \in {"\"", "\\"} THEN tokAdd(m, c, "string")
                ELSE [m EXCEPT !.state = ""])
      [] m.state = "word" ->
            IF c = EOF THEN [tokPush(m) EXCEPT !.state = "end"]
            ELSE IF c \in {"(", ")", "[", "]"} THEN tokenizeStart(tokPush(m), c)
            ELSE IF c \in reNewline THEN [tokPush(m) EXCEPT !.state = "start"]
            ELSE IF c \in reSpace THEN [tokPush(m) EXCEPT !.state = "start"]
            ELSE IF c \in reWord THEN tokAdd(m, c, "word")
            ELSE [m EXCEPT !.state = ""]
      [] m.state = "numberSign" ->
            matchOrThrow(m, c,
                IF c \in Digit THEN tokAdd(m, c, "numberDigit")
                ELSE [m EXCEPT !.state = ""])
      [] m.state = "numberDigit" ->
            IF c = EOF THEN [tokPush(m) EXCEPT !.state = "end"]
            ELSE IF c \in reSpace THEN [tokPush(m) EXCEPT !.state = "start"]
            ELSE IF c \in Digit THEN tokAdd(m, c, "numberDigit")
            ELSE IF c = "." THEN tokAdd(m, c, "numberDot")
            ELSE IF c = "e" THEN tokAdd(m, c, "numberExponent")
            ELSE [m EXCEPT !.state = ""]
      [] m.state = "numberDot" ->
            matchOrThrow(m, c,
                IF c \in Digit THEN tokAdd(m, c, "numberFraction")
                ELSE [m EXCEPT !.state = ""])
      [] m.state = "numberFraction" ->
            matchOrThrow(m, c,
                IF c \in Digit THEN tokAdd(m, c, "numberFraction")
                ELSE IF c = "e" THEN tokAdd(m, c, "numberExponent")
                ELSE [m EXCEPT !.state = ""])
      [] m.state = "numberExponent" ->
            matchOrThrow(m, c,
                IF c \in reSign THEN tokAdd(m, c, "numberExponentSign")
                ELSE [m EXCEPT !.state = ""])
      [] m.state = "numberExponentSign" ->
            matchOrThrow(m, c,
                IF c \in Digit THEN tokAdd(m, c, "numberExponentDigit")
                ELSE [m EXCEPT !.state = ""])
      [] m.state = "numberExponentDigit" ->
            IF c = EOF THEN [tokPush(m) EXCEPT !.state = "end"]
            ELSE IF c \in reSpace THEN [tokPush(m) EXCEPT !.state = "start"]
            ELSE IF c \in Digit THEN tokAdd(m, c, "numberExponentDigit")
            ELSE [m EXCEPT !.state = ""]
      [] m.state = "end" ->
            IF c = EOF THEN [m EXCEPT !.state = "end"] ELSE [m EXCEPT !.state = ""]

RECURSIVE tokenizeRun(_, _, _)
tokenizeRun(m, str, i) ==
    IF i > Len(str) \/ m.state = "end"
    THEN afterEnd(tokenizeHandler(m, EOF))
    ELSE LET n == afterItem(tokenizeHandler(m, str[i]))
         IN  IF n.err # "" THEN n ELSE tokenizeRun(n, str, i + 1)

\* the tokens of a source text, or the error tokenize throws
tokenize(str) ==
    tokenizeRun([state |-> "start", token |-> <<>>, tokens |-> <<>>, err |-> ""],
                str, 1)

-----------------------------------------------------------------------------
(* Interpreter.parse (1262-1386).  A ListBuilder is the sequence of the     *)
(* values pushed so far.  push() saves the builder `sub` and makes it the   *)
(* current `parsed`: the saved `sub` and the new `parsed` are one object,   *)
(* so pop() finds in `sub` whatever was pushed to `parsed` meanwhile.       *)

\* the digits of s from position i on, as a number, and where they end
RECURSIVE digitsValue(_, _, _)
digitsValue(s, i, acc) ==
    IF i > Len(s) \/ s[i] \notin Digit THEN acc
    ELSE digitsValue(s, i + 1, 10 * acc + DigitValue(s[i]))

RECURSIVE digitsEnd(_, _)
digitsEnd(s, i) ==
    IF i > Len(s) \/ s[i] \notin Digit THEN i ELSE digitsEnd(s, i + 1)

RECURSIVE Pow10(_)
Pow10(x) == IF x = 0 THEN 1 ELSE 10 * Pow10(x - 1)

\* the number m / 10^e as a value: an integer where it is one
RECURSIVE decimal(_, _)
decimal(m, e) ==
    IF e = 0 THEN Num(m)
    ELSE IF m % 10 = 0 THEN decimal(m \div 10, e - 1)
    ELSE Frac(m, e)

\* parseFloat(token), for a token without a dot: the longest prefix of the
\* form [+-]digits[e[+-]digits] is the number, and no leading digit gives NaN
parseFloat(s) ==
    LET neg == s # <<>> /\ s[1] = "-"
        pos == s # <<>> /\ s[1] = "+"
        d == IF neg \/ pos THEN Tail(s) ELSE s
        k == digitsEnd(d, 1)
        m == IF neg THEN 0 - digitsValue(d, 1, 0) ELSE digitsValue(d, 1, 0)
        signed == k + 1 <= Len(d) /\ d[k + 1] \in reSign
        x == IF signed THEN k + 2 ELSE k + 1
        hasExp == /\ k <= Len(d) /\ d[k] = "e"
                  /\ x <= Len(d) /\ d[x] \in Digit
        e == digitsValue(d, x, 0)
    IN  IF d = <<>> \/ d[1] \notin Digit THEN NaN
        ELSE IF ~hasExp THEN Num(m)
        ELSE IF signed /\ d[k + 1] = "-" THEN decimal(m, e)
        ELSE Num(m * Pow10(e))

\* parsed.push(value)
parsedPush(m, val) == [m EXCEPT !.parsed = Append(@, val)]

\* push() (1270-1275)
parsePush(m) ==
    [m EXCEPT !.stack = Append(@, [parsed |-> m.parsed, parens |-> m.parens,
                                   oldState |-> m.oldState]),
              !.parsed = m.sub, !.sub = <<>>, !.parens = 0]

\* pop() (1276-1278)
parsePop(m) ==
    LET e == m.stack[Len(m.stack)]
    IN  [m EXCEPT !.stack = SubSeq(@, 1, Len(@) - 1),
                  !.parsed = e.parsed, !.sub = m.parsed,
                  !.parens = e.parens, !.oldState = e.oldState]

\* common(token, state) (1280-1330); m.state is machine.state
common(m, token, state) ==
    IF token = NoToken THEN [m EXCEPT !.err = "SyntaxError"]
    ELSE IF token = <<"(">>
         THEN [parsedPush(m, Str(token)) EXCEPT !.parens = @ + 1, !.next = state]
    ELSE IF token = <<")">>
         THEN [parsedPush(m, Str(token)) EXCEPT !.parens = @ - 1, !.next = state]
    ELSE IF token = <<"[">>
         THEN [parsePush([m EXCEPT !.sub = <<>>, !.oldState = m.state])
                  EXCEPT !.next = "block"]
    ELSE IF token = <<"t", "o">>
         THEN [parsedPush(parsedPush(m, Str(<<"(">>)), Str(<<"t", "o">>))
                  EXCEPT !.oldState = m.state, !.next = "to"]
    ELSE IF token[1] \in Digit \cup {"-"}
         THEN [parsedPush(m, parseFloat(token)) EXCEPT !.next = state]
    ELSE [parsedPush(m, Str(token)) EXCEPT !.next = state]

\* the toBlock handler (1368-1377), also called by toArgs while
\* machine.state is still 'toArgs'
parseToBlock(m, token) ==
    IF token = <<"e", "n", "d">>
    THEN LET subList == m.parsed
             p == parsePop(m)
         IN  [parsedPush(parsedPush(p, Lst(subList)), Str(<<")">>))
                 EXCEPT !.next = p.oldState]
    ELSE common(m, token, "toBlock")

\* the handlers of the machine (1331-1383); the answer is left in m.next
parseHandler(m, token) ==
    CASE m.state = "start" ->
            IF token = NoToken THEN [m EXCEPT !.next = "end"]
            ELSE common(m, token, m.state)
      [] m.state = "block" ->
            IF token = <<"]">>
            THEN IF m.parens # 0 THEN [m EXCEPT !.err = "SyntaxError"]
                 ELSE IF m.stack = <<>> THEN [m EXCEPT !.err = "SyntaxError"]
                 ELSE LET p == parsePop(m)
                      IN  [parsedPush(p, Lst(p.sub)) EXCEPT !.next = p.oldState]
            ELSE common(m, token, m.state)
      [] m.state = "to" ->
            \* '"' + undefined is the string "undefined with a quote
            IF token = NoToken
            THEN [parsedPush(m, Str(<<"\"", "u", "n", "d", "e", "f", "i", "n", "e", "d">>))
                     EXCEPT !.next = "toArgs"]
            ELSE [parsedPush(m, Str(<<"\"">> \o token)) EXCEPT !.next = "toArgs"]
      [] m.state = "toArgs" ->
            IF token = NoToken THEN [m EXCEPT !.err = "TypeError"]
            ELSE IF token[1] = ":"
                 THEN [parsedPush(m, Str(<<"\"">> \o Tail(token)))
                          EXCEPT !.next = "toArgs"]
            ELSE parseToBlock(parsePush([m EXCEPT !.sub = <<>>]), token)
      [] m.state = "toBlock" -> parseToBlock(m, token)
      [] m.state = "end" ->
            IF token = NoToken THEN [m EXCEPT !.next = "end"] ELSE [m EXCEPT !.next = ""]

\* machine.state = next, as run() assigns it after the handler
parseAdvance(m) == [m EXCEPT !.state = m.next]

RECURSIVE parseRun(_, _, _)
parseRun(m, tokens, i) ==
    IF i > Len(tokens) \/ m.state = "end"
    THEN afterEnd(parseAdvance(parseHandler(m, NoToken)))
    ELSE LET h == parseHandler(m, tokens[i])
             n == IF h.err # "" THEN h ELSE afterItem(parseAdvance(h))
         IN  IF n.err # "" THEN n ELSE parseRun(n, tokens, i + 1)

\* the parsed program of a token list, or the error parse throws
parse(tokens) ==
    parseRun([state |-> "start", next |-> "", parsed |-> <<>>, sub |-> <<>>,
              parens |-> 0, oldState |-> "", stack |-> <<>>, err |-> ""],
             tokens, 1)

-----------------------------------------------------------------------------
(* Names used by the model, as JavaScript strings. *)

sLeft == <<"l", "e", "f", "t">>
sUp == <<"u", "p">>
sWait == <<"w", "a", "i", "t">>
sRepeat == <<"r", "e", "p", "e", "a", "t">>
sStop == <<"s", "t", "o", "p">>
sOutput == <<"o", "u", "t", "p", "u", "t">>
sTo == <<"t", "o">>
sTrue == <<"t", "r", "u", "e">>
sIf == <<"i", "f">>
sIfelse == <<"i", "f", "e", "l", "s", "e">>
sApply == <<"a", "p", "p", "l", "y">>
sMake == <<"m", "a", "k", "e">>
sDifference == <<"d", "i", "f", "f", "e", "r", "e", "n", "c", "e">>
sProduct == <<"p", "r", "o", "d", "u", "c", "t">>

\* v === s, for a value v and a string s
isToken(v, s) == isString(v) /\ v.s = s
isUndefined(v) == v.t = "undefined"

-----------------------------------------------------------------------------
(* Scope (475-557).  heap[id] is the Scope object id; its bindings object   *)
(* inherits from the parent's through the prototype chain, so a lookup      *)
(* walks the parents.                                                       *)

\* new Scope(parent) (481-484): the heap with the new object appended
newScope(h, parent) == Append(h, [parent |-> parent, bindings |-> <<>>])

\* Scope.getBinding (518-520): the scope that owns the binding found
\* for name from scope id, 0 when there is none; the name and the bindings
\* of the scope are evaluated once for the search
RECURSIVE getBinding(_, _, _)
getBinding(h, id, name) ==
    IF id = 0 THEN 0
    ELSE IF \E n \in {name} : \E b \in {h[id].bindings} :
                \E k \in DOMAIN b : b[k].name = n
         THEN id
    ELSE getBinding(h, h[id].parent, name)

\* binding.value of the Binding found in scope `owner`
bindingValue(h, owner, name) ==
    LET b == h[owner].bindings
        k == CHOOSE k \in DOMAIN b : b[k].name = name
    IN  b[k].value

\* Scope.bindValue (544-546): a new Binding in this very scope, replacing
\* the scope's own binding of the name if it has one
bindValue(h, id, name, val) ==
    LET b == h[id].bindings
    IN  IF \E k \in DOMAIN b : b[k].name = name
        THEN [h EXCEPT ![id].bindings =
                  [k \in DOMAIN b |-> IF b[k].name = name
                                      THEN [name |-> name, value |-> val]
                                      ELSE b[k]]]
        ELSE [h EXCEPT ![id].bindings = Append(@, [name |-> name, value |-> val])]

\* Scope.set (502-509)
scopeSet(h, id, name, val) ==
    LET owner == getBinding(h, id, name)
    IN  IF owner # 0 THEN bindValue(h, owner, name, val)
        ELSE bindValue(h, id, name, val)

\* Scope.bindValues (552-556) of a list of names bound to native functions
RECURSIVE bindValues(_, _, _)
bindValues(h, id, names) ==
    IF names = <<>> THEN h
    ELSE bindValues(bindValue(h, id, Head(names), Native(Head(names))),
                    id, Tail(names))

\* the builtins of this model (590-932), and the procedures a host binds
\* (index.js, 1767-1830)
builtins == <<sTrue, sWait, sMake, sTo, sDifference, sProduct, sStop, sOutput,
              sRepeat, sIf, sIfelse, sApply>>
api == <<sLeft, sUp>>

\* the declared parameter count of a native function: Function.length
nativeLength(name) ==
    CASE name = sWait -> 1
      [] name = sTo -> 1
      [] name = sStop -> 0
      [] name = sOutput -> 1
      [] name = sRepeat -> 2
      [] name = sTrue -> 0
      [] name = sIf -> 2
      [] name = sMake -> 2
      [] name = sDifference -> 2
      [] name = sProduct -> 2
      [] name = sLeft -> 1
      [] name = sUp -> 0
      [] name = sIfelse -> 3
      [] name = sApply -> 2

\* `undefined` as the length of a value that has no length property
NoLength == -1

\* func.length, whatever value `func` is
funcLength(func) ==
    IF isFunction(func)
    THEN IF func.f.native THEN nativeLength(func.f.name) ELSE Len(func.f.argNames)
    ELSE IF isString(func) THEN Len(func.s)
    ELSE NoLength

\* n >= len and n < len of JavaScript: both false against undefined
geLength(n, len) == len # NoLength /\ n >= len
ltLength(n, len) == len # NoLength /\ n < len

-----------------------------------------------------------------------------
(* The state the evaluator works on, as one record w: the fields are the    *)
(* variables of the same names.  An activation of an async function is a    *)
(* frame: fn is the function, pc the await it is suspended at, the other    *)
(* fields its local variables.                                              *)

World == [logo |-> logo, heap |-> heap, stack |-> stack, ret |-> ret,
          timer |-> timer, outcome |-> outcome,
          calls |-> calls, run |-> run]

Frame(fn) ==
    [fn |-> fn, pc |-> "start", iter |-> <<>>, retval |-> Undefined,
     scope |-> 0, ctx |-> 0, func |-> Undefined, args |-> <<>>, i |-> 0, pid |-> 0]

\* nothing delivered; a value returned by the awaited call; an exception
NoRet == [k |-> "none", v |-> Undefined, e |-> ""]
Returned(v) == [k |-> "return", v |-> v, e |-> ""]
Thrown(e) == [k |-> "throw", v |-> Undefined, e |-> e]

\* no timer is set: an id that was cleared or has fired means nothing
NoTimer == [armed |-> FALSE, id |-> 0]

\* new Error('Break requested') (1625, 1682)
BreakRequested == "Break requested"

\* a callback that was never set, and the closures of checkBreak (1628-1634)
\* and of wait (753-756) over the promise `id`
Null == [kind |-> "null", id |-> 0]
Closure(kind, id) == [kind |-> kind, id |-> id]

\* the identity of a new promise: one that no callback closes over (a
\* promise is created while none is pending, so none but the callbacks
\* can still refer to an older one)
newPromise(w) ==
    CHOOSE id \in 1..3 :
        /\ id \notin {w.logo.onbreak.id, w.logo.oncontinue.id}
        /\ \A j \in 1..3 : j < id => j \in {w.logo.onbreak.id, w.logo.oncontinue.id}

Top(w) == w.stack[Len(w.stack)]
Pop(w) == [w EXCEPT !.stack = SubSeq(@, 1, Len(@) - 1)]
SetTop(w, f) == [w EXCEPT !.stack[Len(w.stack)] = f]
\* the innermost activation awaits a call of the async function of frame g
Await(w, f, g) == [w EXCEPT !.stack = Append(SubSeq(@, 1, Len(@) - 1), f) \o <<g>>,
                            !.ret = NoRet]
\* the innermost activation returns v / throws e to the one awaiting it
Return(w, v) == [Pop(w) EXCEPT !.ret = Returned(v)]
Throw(w, e) == [Pop(w) EXCEPT !.ret = Thrown(e)]

\* Interpreter.currentScope (985-992), Interpreter.currentContext (976-983)
currentScope(w) == w.logo.scopes[Len(w.logo.scopes)]
currentContext(w) == Len(w.logo.contexts)

\* new Context() (468-473)
Context == [output |-> Undefined, stop |-> FALSE]

\* the activation of evaluate() whose closures handleFixed, handleVariadic,
\* handleArg and handleLiteral are running: they share its iter, scope and
\* context (1455-1459)
evIndex(w) ==
    CHOOSE k \in 1..Len(w.stack) :
        /\ w.stack[k].fn = "evaluate"
        /\ \A j \in (k + 1)..Len(w.stack) : w.stack[j].fn # "evaluate"

\* iter = iter.tail in that activation
iterTail(w) == [w EXCEPT !.stack[evIndex(w)].iter = Tail(@)]

\* the frame of a call evaluate(body): scope and context are read on entry
evaluateFrame(w, body) ==
    [Frame("evaluate") EXCEPT !.iter = body, !.scope = currentScope(w),
                              !.ctx = currentContext(w)]

-----------------------------------------------------------------------------
(* Interpreter.evaluate (1454-1595). *)

\* validateCommand (1461-1471): the function bound to the word, or the error
validateCommand(w, scope, command) ==
    IF ~isWord(command) THEN [err |-> "SyntaxError", func |-> Undefined]
    ELSE LET owner == getBinding(w.heap, scope, command.s)
         IN  IF owner = 0 THEN [err |-> "TypeError", func |-> Undefined]
             ELSE [err |-> "", func |-> bindingValue(w.heap, owner, command.s)]

\* handleLiteral (1473-1504); onvalue is null
handleLiteral(w) ==
    LET E == w.stack[evIndex(w)]
        value == Head(E.iter)
        w1 == [iterTail(w) EXCEPT !.run.values = @ + 1]
    IN  IF isList(value) \/ isBoolean(value) \/ isNumber(value) THEN Return(w1, value)
        ELSE IF ~isString(value) THEN Throw(w1, "SyntaxError")
        ELSE IF value.s # <<>> /\ value.s[1] = "\"" THEN Return(w1, Str(Tail(value.s)))
        ELSE IF value.s # <<>> /\ value.s[1] = ":"
             THEN LET owner == getBinding(w.heap, E.scope, Tail(value.s))
                  IN  IF owner = 0 THEN Throw(w1, "ReferenceError")
                      ELSE Return(w1, bindingValue(w.heap, owner, Tail(value.s)))
        ELSE Throw(w1, "SyntaxError")

\* a handleArg that takes a word for a literal, not for a nested call
handleArg_flat(w) ==
    LET f == Top(w)
        E == w.stack[evIndex(w)]
    IN  IF f.pc = "start"
        THEN LET g == IF isToken(Head(E.iter), <<"(">>) THEN Frame("handleVariadic")
                      ELSE Frame("handleLiteral")
             IN  Await(w, [f EXCEPT !.pc = "await"], g)
        ELSE Return(w, w.ret.v)

\* handleArg (1506-1515)
handleArg(w) ==
    LET f == Top(w)
        E == w.stack[evIndex(w)]
    IN  IF f.pc = "start"
        THEN LET g == IF isToken(Head(E.iter), <<"(">>) THEN Frame("handleVariadic")
                      ELSE IF isWord(Head(E.iter)) THEN Frame("handleFixed")
                      ELSE Frame("handleLiteral")
             IN  Await(w, [f EXCEPT !.pc = "await"], g)
        ELSE Return(w, w.ret.v)

\* the frame of a call performCall(func, args)
performCallFrame(func, args) ==
    [Frame("performCall") EXCEPT !.func = func, !.args = args]

\* a loop of handleFixed that makes the call with the arguments it has when
\* the instruction list ends
handleFixedLoop_callsShort(w, f) ==
    LET E == w.stack[evIndex(w)]
    IN  IF w.logo.contexts[E.ctx].stop THEN Return(w, Undefined)
        ELSE IF geLength(Len(f.args), funcLength(f.func)) \/ E.iter = <<>>
             THEN Await(w, [f EXCEPT !.pc = "call"], performCallFrame(f.func, f.args))
        ELSE Await(w, [f EXCEPT !.pc = "arg"], Frame("handleArg"))

\* the while loop of handleFixed (1558-1571), from its test
handleFixedLoop(w, f) ==
    LET E == w.stack[evIndex(w)]
    IN  IF w.logo.contexts[E.ctx].stop THEN Return(w, Undefined)
        ELSE IF geLength(Len(f.args), funcLength(f.func))
             THEN Await(w, [f EXCEPT !.pc = "call"], performCallFrame(f.func, f.args))
        ELSE IF E.iter = <<>> THEN Throw(w, "SyntaxError")
        ELSE Await(w, [f EXCEPT !.pc = "arg"], Frame("handleArg"))

\* handleFixed (1551-1572)
handleFixed(w) ==
    LET f == Top(w)
        E == w.stack[evIndex(w)]
    IN  CASE f.pc = "start" ->
                LET c == validateCommand(w, E.scope, Head(E.iter))
                IN  IF c.err # "" THEN Throw(w, c.err)
                    ELSE handleFixedLoop(iterTail([w EXCEPT !.run.entered = @ + 1]),
                                         [f EXCEPT !.func = c.func])
          [] f.pc = "arg" ->
                IF isUndefined(w.ret.v) THEN Throw(w, "SyntaxError")
                ELSE handleFixedLoop(w, [f EXCEPT !.args = Append(@, w.ret.v)])
          [] f.pc = "call" -> Return(w, w.ret.v)

\* a loop of handleVariadic that takes no more arguments than the arity
handleVariadicLoop_exact(w, f) ==
    LET E == w.stack[evIndex(w)]
    IN  IF w.logo.contexts[E.ctx].stop THEN Return(w, Undefined)
        ELSE IF E.iter = <<>> THEN Throw(w, "SyntaxError")
        ELSE IF isToken(Head(E.iter), <<")">>)
             THEN IF ltLength(Len(f.args), funcLength(f.func))
                  THEN Throw(w, "SyntaxError")
                  ELSE Await(iterTail(w), [f EXCEPT !.pc = "call"],
                             performCallFrame(f.func, f.args))
        ELSE IF geLength(Len(f.args), funcLength(f.func)) THEN Throw(w, "SyntaxError")
        ELSE Await(w, [f EXCEPT !.pc = "arg"], Frame("handleArg"))

\* the while loop of handleVariadic (1531-1548), from its test
handleVariadicLoop(w, f) ==
    LET E == w.stack[evIndex(w)]
    IN  IF w.logo.contexts[E.ctx].stop THEN Return(w, Undefined)
        ELSE IF E.iter = <<>> THEN Throw(w, "SyntaxError")
        ELSE IF isToken(Head(E.iter), <<")">>)
             THEN IF ltLength(Len(f.args), funcLength(f.func))
                  THEN Throw(w, "SyntaxError")
                  ELSE Await(iterTail(w), [f EXCEPT !.pc = "call"],
                             performCallFrame(f.func, f.args))
        ELSE Await(w, [f EXCEPT !.pc = "arg"], Frame("handleArg"))

\* handleVariadic (1517-1549)
handleVariadic(w) ==
    LET f == Top(w)
        w1 == iterTail(w)
        E == w1.stack[evIndex(w1)]
    IN  CASE f.pc = "start" ->
                IF E.iter = <<>> THEN Throw(w1, "SyntaxError")
                ELSE LET c == validateCommand(w1, E.scope, Head(E.iter))
                     IN  IF c.err # "" THEN Throw(w1, c.err)
                         ELSE handleVariadicLoop(
                                  iterTail([w1 EXCEPT !.run.entered = @ + 1]),
                                  [f EXCEPT !.func = c.func])
          [] f.pc = "arg" ->
                IF isUndefined(w.ret.v) THEN Throw(w, "SyntaxError")
                ELSE handleVariadicLoop(w, [f EXCEPT !.args = Append(@, w.ret.v)])
          [] f.pc = "call" -> Return(w, w.ret.v)

\* an evaluate that goes on after a value and returns the last one
evaluate_lastValue(w) ==
    LET f0 == Top(w)
        f == IF w.ret.k = "return" THEN [f0 EXCEPT !.retval = w.ret.v] ELSE f0
    IN  IF w.logo.contexts[f.ctx].stop THEN Return(w, f.retval)
        ELSE IF f.iter = <<>> THEN Return(w, f.retval)
        ELSE IF isToken(Head(f.iter), <<"(">>)
             THEN Await(w, [f EXCEPT !.pc = "await"], Frame("handleVariadic"))
        ELSE IF isWord(Head(f.iter))
             THEN Await(w, [f EXCEPT !.pc = "await"], Frame("handleFixed"))
        ELSE Await(w, [f EXCEPT !.pc = "await"], Frame("handleLiteral"))

\* the body of evaluate (1574-1594): the while loop from its test, after
\* the value of the element just handled, if any, was assigned to retval
evaluate(w) ==
    LET f0 == Top(w)
        f == IF w.ret.k = "return" THEN [f0 EXCEPT !.retval = w.ret.v] ELSE f0
    IN  IF w.logo.contexts[f.ctx].stop THEN Return(w, f.retval)
        ELSE IF ~isUndefined(f.retval)
             THEN IF f.iter = <<>> THEN Return(w, f.retval)
                  ELSE Throw(w, "SyntaxError")
        ELSE IF f.iter = <<>> THEN Return(w, f.retval)
        ELSE IF isToken(Head(f.iter), <<"(">>)
             THEN Await(w, [f EXCEPT !.pc = "await"], Frame("handleVariadic"))
        ELSE IF isWord(Head(f.iter))
             THEN Await(w, [f EXCEPT !.pc = "await"], Frame("handleFixed"))
        ELSE Await(w, [f EXCEPT !.pc = "await"], Frame("handleLiteral"))

-----------------------------------------------------------------------------
(* Interpreter.checkBreak (1622-1639) and Interpreter.performCall           *)
(* (1396-1406); oncall and onvalue are null, as the constructor leaves      *)
(* them.                                                                    *)

\* a checkBreak that does not look at paused
checkBreak_ignoresPause(w) ==
    IF w.logo.breakFlag
    THEN [Throw(w, BreakRequested) EXCEPT !.run.raised = TRUE]
    ELSE SetTop([w EXCEPT !.run.passed = @ + 1], [Top(w) EXCEPT !.pc = "passed"])

\* a checkBreak that does not look at breakFlag
checkBreak_ignoresBreak(w) ==
    IF w.logo.paused
    THEN SetTop([w EXCEPT !.logo.oncontinue = Closure("checkBreak", newPromise(w)),
                          !.logo.onbreak = Closure("checkBreak", newPromise(w))],
                [Top(w) EXCEPT !.pc = "suspended", !.pid = newPromise(w)])
    ELSE SetTop([w EXCEPT !.run.passed = @ + 1], [Top(w) EXCEPT !.pc = "passed"])

\* the executor of the promise of checkBreak, run by the first statement of
\* performCall: the promise is rejected, left pending with the two
\* callbacks set, or resolved
checkBreak(w) ==
    LET f == Top(w)
    IN  IF w.logo.breakFlag
        THEN [Throw(w, BreakRequested) EXCEPT !.run.raised = TRUE]
        ELSE IF w.logo.paused
             THEN SetTop([w EXCEPT !.logo.oncontinue = Closure("checkBreak", newPromise(w)),
                                   !.logo.onbreak = Closure("checkBreak", newPromise(w))],
                         [f EXCEPT !.pc = "suspended", !.pid = newPromise(w)])
        ELSE SetTop([w EXCEPT !.run.passed = @ + 1], [f EXCEPT !.pc = "passed"])

\* a resolve() after which the call that was held is taken as made
resolveCheckBreak_skips(w, id) ==
    IF w.stack # <<>> /\ Top(w).fn = "performCall" /\ Top(w).pc = "suspended"
       /\ Top(w).pid = id
    THEN [SetTop([w EXCEPT !.run.passed = @ + 1, !.run.resumed = TRUE],
                 [Top(w) EXCEPT !.pc = "apply"]) EXCEPT !.ret = Returned(Undefined)]
    ELSE w

\* resolve() of the promise `id` of checkBreak: nothing once it is settled
resolveCheckBreak(w, id) ==
    IF w.stack # <<>> /\ Top(w).fn = "performCall" /\ Top(w).pc = "suspended"
       /\ Top(w).pid = id
    THEN SetTop([w EXCEPT !.run.passed = @ + 1, !.run.resumed = TRUE],
                [Top(w) EXCEPT !.pc = "passed"])
    ELSE w

\* reject(reason) of the promise `id` of checkBreak or of wait
rejectPromise(w, id) ==
    IF w.stack # <<>> /\ Top(w).fn = "performCall"
       /\ Top(w).pc \in {"suspended", "waiting"} /\ Top(w).pid = id
    THEN [Throw(w, BreakRequested) EXCEPT !.run.raised = TRUE]
    ELSE w

\* builtins.wait (746-758): the timer is set and onbreak replaced
builtinWait(w) ==
    SetTop([w EXCEPT !.timer = [armed |-> TRUE, id |-> newPromise(w)],
                     !.logo.onbreak = Closure("wait", newPromise(w)),
                     !.ret = NoRet],
           [Top(w) EXCEPT !.pc = "waiting", !.pid = newPromise(w)])

\* builtins.stop (853-856)
builtinStop(w) ==
    [w EXCEPT !.logo.contexts[currentContext(w)].stop = TRUE]

\* an output that sets the value and does not stop the context
builtinOutput_goesOn(w, arg) ==
    [w EXCEPT !.logo.contexts[currentContext(w)].output = arg]

\* builtins.output (857-861)
builtinOutput(w, arg) ==
    [w EXCEPT !.logo.contexts[currentContext(w)].stop = TRUE,
              !.logo.contexts[currentContext(w)].output = arg]

\* args[i] of a JavaScript array
argAt(args, i) == IF i \in DOMAIN args THEN args[i] ELSE Undefined

\* builtins.make (772-777): the world after it, or the error it throws
builtinMake(w, name, val) ==
    IF ~isString(name) THEN [err |-> "TypeError", w |-> w]
    ELSE [err |-> "", w |-> [w EXCEPT !.heap = scopeSet(@, currentScope(w), name.s, val)]]

\* the number an operand of - or * is converted to: a string of this
\* model's alphabet is a number when it is empty or all digits
toNumber(v) ==
    CASE v.t \in {"number", "fraction"} -> v
      [] v.t = "boolean" -> Num(IF v.b THEN 1 ELSE 0)
      [] v.t = "string" ->
            IF v.s = <<>> THEN Num(0)
            ELSE IF \A k \in DOMAIN v.s : v.s[k] \in Digit THEN Num(digitsValue(v.s, 1, 0))
            ELSE NaN
      [] OTHER -> NaN

\* a number as m / 10^e
mantissa(v) == IF v.t = "number" THEN [m |-> v.n, e |-> 0] ELSE [m |-> v.m, e |-> v.e]

\* builtins.difference (822-824) and builtins.product (825-827)
difference(a, b) ==
    IF toNumber(a) = NaN \/ toNumber(b) = NaN THEN NaN
    ELSE LET x == mantissa(toNumber(a))
             y == mantissa(toNumber(b))
             e == IF x.e > y.e THEN x.e ELSE y.e
         IN  decimal(x.m * Pow10(e - x.e) - y.m * Pow10(e - y.e), e)
product(a, b) ==
    IF toNumber(a) = NaN \/ toNumber(b) = NaN THEN NaN
    ELSE LET x == mantissa(toNumber(a))
             y == mantissa(toNumber(b))
         IN  decimal(x.m * y.m, x.e + y.e)

\* the condition of a JavaScript if
truthy(v) ==
    CASE v.t = "boolean" -> v.b
      [] v.t = "number" -> v.n # 0
      [] v.t = "fraction" -> TRUE
      [] v.t = "string" -> v.s # <<>>
      [] v.t \in {"object", "function"} -> TRUE
      [] OTHER -> FALSE

\* Interpreter.procedure (1004-1045): the function object, or TypeError
procedure(parentScope, funcName, argNames, body) ==
    IF ~isString(funcName) \/ \E k \in DOMAIN argNames : ~isString(argNames[k])
    THEN [err |-> "TypeError", func |-> Undefined]
    ELSE [err |-> "",
          func |-> [t |-> "function",
                    f |-> [native |-> FALSE, name |-> funcName.s,
                           argNames |-> [k \in DOMAIN argNames |-> argNames[k].s],
                           body |-> body, parentScope |-> parentScope]]]

\* builtins.to (805-816): the world after it, or the error it throws
builtinTo(w, args) ==
    LET parentScope == currentScope(w)
        name == argAt(args, 1)
        rest == Tail(args)
    IN  IF ~isString(name) THEN [err |-> "TypeError", w |-> w]
        ELSE IF Len(rest) < 1 THEN [err |-> "TypeError", w |-> w]
        ELSE LET p == procedure(parentScope, name, SubSeq(rest, 1, Len(rest) - 1),
                                rest[Len(rest)])
             IN  IF p.err # "" THEN [err |-> p.err, w |-> w]
                 ELSE [err |-> "",
                       w |-> [w EXCEPT !.heap = bindValue(@, parentScope, name.s, p.func)]]

\* builtins.ifelse (905-911): both branches evaluate `block`, a name that
\* nothing declares, and reading it throws before evaluate is called
builtinIfelse(w) == Throw(w, "ReferenceError")

\* Array.from(inputlist) (915): the elements of a List, the characters of
\* a string, nothing of a number or a boolean
arrayFrom(val) ==
    IF isList(val) THEN val.l
    ELSE IF isString(val) THEN [k \in DOMAIN val.s |-> Str(<<val.s[k]>>)]
    ELSE <<>>

\* builtins.apply (914-917), up to its await of runTemplate; g is the
\* activation of performCall that awaits it; Array.from(undefined) throws
builtinApply(w, g) ==
    LET template == argAt(g.args, 1)
        inputlist == argAt(g.args, 2)
    IN  IF isUndefined(inputlist) THEN Throw(w, "TypeError")
        ELSE Await(w, g, [Frame("runTemplate") EXCEPT !.func = template,
                                                      !.args = arrayFrom(inputlist)])

\* func.apply(this, args) (1401), up to the first await of the function
apply(w) ==
    LET f == Top(w)
        func == f.func
        g == [f EXCEPT !.pc = "apply"]
        w1 == [w EXCEPT !.calls = Append(@, [name |-> IF isFunction(func)
                                                      THEN func.f.name ELSE <<>>,
                                             args |-> f.args])]
    IN  IF ~isFunction(func) THEN Throw(w, "TypeError")
        ELSE IF ~func.f.native THEN Await(w1, g, [Frame("func") EXCEPT !.func = func, !.args = f.args])
        ELSE CASE func.f.name = sWait -> builtinWait(w1)
               [] func.f.name = sRepeat ->
                    Await(w1, g, [Frame("repeat") EXCEPT !.args = f.args])
               [] func.f.name = sStop ->
                    [SetTop(builtinStop(w1), g) EXCEPT !.ret = Returned(Undefined)]
               [] func.f.name = sOutput ->
                    [SetTop(builtinOutput(w1, argAt(f.args, 1)), g)
                        EXCEPT !.ret = Returned(Undefined)]
               [] func.f.name = sTo ->
                    LET r == builtinTo(w1, f.args)
                    IN  IF r.err # "" THEN Throw(w1, r.err)
                        ELSE [SetTop(r.w, g) EXCEPT !.ret = Returned(Undefined)]
               [] func.f.name = sMake ->
                    LET r == builtinMake(w1, argAt(f.args, 1), argAt(f.args, 2))
                    IN  IF r.err # "" THEN Throw(w1, r.err)
                        ELSE [SetTop(r.w, g) EXCEPT !.ret = Returned(Undefined)]
               [] func.f.name = sIf ->
                    Await(w1, g, [Frame("if") EXCEPT !.args = f.args])
               [] func.f.name = sTrue ->
                    [SetTop(w1, g) EXCEPT !.ret = Returned(Bool(TRUE))]
               [] func.f.name = sDifference ->
                    [SetTop(w1, g) EXCEPT
                        !.ret = Returned(difference(argAt(f.args, 1), argAt(f.args, 2)))]
               [] func.f.name = sProduct ->
                    [SetTop(w1, g) EXCEPT
                        !.ret = Returned(product(argAt(f.args, 1), argAt(f.args, 2)))]
               [] func.f.name \in {sLeft, sUp} ->
                    [SetTop(w1, g) EXCEPT !.ret = Returned(Undefined)]
               [] func.f.name = sIfelse -> builtinIfelse(w1)
               [] func.f.name = sApply -> builtinApply(w1, g)

\* performCall (1396-1406)
performCall(w) ==
    LET f == Top(w)
    IN  CASE f.pc = "start" -> checkBreak(w)
          [] f.pc = "passed" -> apply(w)
          [] f.pc = "apply" -> Return(w, w.ret.v)

-----------------------------------------------------------------------------
(* The functions that call evaluate. *)

\* the for loop of builtins.repeat (885-890), from its test
repeatLoop(w, f) ==
    LET times == argAt(f.args, 1)
        block == argAt(f.args, 2)
    IN  IF \/ times.t = "number" /\ f.i < times.n
           \/ times.t = "fraction" /\ f.i * Pow10(times.e) < times.m
        THEN Await(w, [f EXCEPT !.pc = "await"], evaluateFrame(w, block.l))
        ELSE Return(w, Undefined)

\* builtins.repeat (878-891)
repeat(w) ==
    LET f == Top(w)
    IN  IF f.pc = "start"
        THEN IF ~isNumber(argAt(f.args, 1)) THEN Throw(w, "TypeError")
             ELSE IF ~isList(argAt(f.args, 2)) THEN Throw(w, "TypeError")
             ELSE repeatLoop(w, f)
        ELSE IF w.logo.contexts[currentContext(w)].stop THEN Return(w, Undefined)
        ELSE repeatLoop(w, [f EXCEPT !.i = @ + 1])

\* builtins.if (900-904); evaluate of a block that is no List throws at
\* iter.isEmpty()
builtinIf(w) ==
    LET f == Top(w)
        cond == argAt(f.args, 1)
        block == argAt(f.args, 2)
    IN  IF f.pc = "start"
        THEN IF ~truthy(cond) THEN Return(w, Undefined)
             ELSE IF ~isList(block) THEN Throw(w, "TypeError")
             ELSE Await(w, [f EXCEPT !.pc = "await"], evaluateFrame(w, block.l))
        ELSE Return(w, w.ret.v)

\* the loop of runTemplate over the names of the template (1430-1437), n
\* names bound so far; the names of the templates here are words
RECURSIVE bindTemplate(_, _, _, _, _)
bindTemplate(h, id, names, args, n) ==
    IF n >= Len(names) THEN [err |-> "", h |-> h]
    ELSE IF n > Len(args) THEN [err |-> "ReferenceError", h |-> h]
    ELSE bindTemplate(bindValue(h, id, names[n + 1].s, argAt(args, n + 1)),
                      id, names, args, n + 1)

\* a finally of runTemplate that leaves the scope of the template pushed
templateFinally_keeps(w) == w

\* the finally of runTemplate (1448-1450)
templateFinally(w) ==
    [w EXCEPT !.logo.scopes = SubSeq(@, 1, Len(@) - 1)]

\* Interpreter.runTemplate (1408-1452); the template is in the field func
runTemplate(w) ==
    LET f == Top(w)
        template == f.func
        scope == Len(w.heap) + 1
        h == newScope(w.heap, currentScope(w))
    IN  CASE f.pc = "start" ->
                IF isString(template)
                THEN LET owner == getBinding(w.heap, currentScope(w), template.s)
                     IN  IF owner = 0 THEN Throw(w, "ReferenceError")
                         ELSE Await(w, [f EXCEPT !.pc = "call"],
                                    performCallFrame(
                                        bindingValue(w.heap, owner, template.s),
                                        f.args))
                ELSE IF ~isList(template) THEN Throw(w, "TypeError")
                ELSE IF template.l = <<>> THEN Return(w, Undefined)
                ELSE IF ~isList(Head(template.l))
                     THEN Throw([w EXCEPT !.heap = h], "TypeError")
                ELSE LET b == bindTemplate(h, scope, Head(template.l).l, f.args, 0)
                         w1 == [w EXCEPT !.heap = b.h,
                                         !.logo.scopes = Append(@, scope)]
                     IN  IF b.err # "" THEN Throw([w EXCEPT !.heap = b.h], b.err)
                         ELSE Await(w1, [f EXCEPT !.pc = "await"],
                                    evaluateFrame(w1, Tail(template.l)))
          [] f.pc = "call" -> Return(w, w.ret.v)
          [] f.pc = "await" -> Return(templateFinally(w), w.ret.v)

\* an activation whose scope binds none of the parameters
bindArgs_none(h, id, argNames, args, index) == h

\* the scope of an activation of a procedure, with its arguments bound
\* (1015-1018)
RECURSIVE bindArgs(_, _, _, _, _)
bindArgs(h, id, argNames, args, index) ==
    IF index > Len(argNames) THEN h
    ELSE bindArgs(bindValue(h, id, argNames[index], argAt(args, index)),
                  id, argNames, args, index + 1)

\* a finally that pops the Scope of the activation and leaves its Context
funcFinally_keepsContext(w) ==
    [w EXCEPT !.logo.scopes = SubSeq(@, 1, Len(@) - 1)]

\* the finally of the function of a procedure (1024-1027)
funcFinally(w) ==
    [w EXCEPT !.logo.contexts = SubSeq(@, 1, Len(@) - 1),
              !.logo.scopes = SubSeq(@, 1, Len(@) - 1)]

\* the function Interpreter.procedure returns (1013-1029); evaluate of a
\* body that is no List throws inside the try
func(w) ==
    LET f == Top(w)
        p == f.func.f
        scope == Len(w.heap) + 1
        h == bindArgs(newScope(w.heap, p.parentScope), scope, p.argNames, f.args, 1)
        w1 == [w EXCEPT !.heap = h, !.logo.scopes = Append(@, scope),
                        !.logo.contexts = Append(@, Context)]
    IN  IF f.pc = "start"
        THEN IF ~isList(p.body) THEN Throw([w EXCEPT !.heap = h], "TypeError")
             ELSE Await(w1, [f EXCEPT !.pc = "await", !.ctx = currentContext(w1)],
                        evaluateFrame(w1, p.body.l))
        ELSE Return(funcFinally(w), w.logo.contexts[f.ctx].output)

\* a finally that leaves the break flag as it finds it
settle_keepsBreak(w, how) ==
    [w EXCEPT !.logo.running = FALSE,
              !.stack = <<>>, !.ret = NoRet, !.outcome = how]

\* the promise of execute settles (1611-1616), after the finally
settle(w, how) ==
    [w EXCEPT !.logo.breakFlag = FALSE, !.logo.running = FALSE,
              !.stack = <<>>, !.ret = NoRet, !.outcome = how]

\* an execute that wraps what the evaluation throws in an error of its own
execute_wraps(w) ==
    IF w.ret.k = "throw" THEN settle(w, "Error")
    ELSE IF ~isUndefined(w.ret.v) THEN settle(w, "SyntaxError")
    ELSE settle(w, "success")

\* an execute that resolves whatever value the evaluation returns
execute_anyValue(w) ==
    IF w.ret.k = "throw" THEN settle(w, w.ret.e)
    ELSE settle(w, "success")

\* Interpreter.execute (1598-1616), from the await of evaluate on
execute(w) ==
    IF w.ret.k = "throw" THEN settle(w, w.ret.e)
    ELSE IF ~isUndefined(w.ret.v) THEN settle(w, "SyntaxError")
    ELSE settle(w, "success")

\* an unwinding that takes the function of a procedure for one without a
\* finally
unwind_skipsFinally(w) ==
    CASE Top(w).fn = "execute" -> execute(w)
      [] OTHER -> Pop(w)

\* an exception reaches the innermost activation at its await: it leaves
\* through the finally, if the function has one
unwind(w) ==
    CASE Top(w).fn = "execute" -> execute(w)
      [] Top(w).fn = "func" -> Pop(funcFinally(w))
      [] Top(w).fn = "runTemplate" /\ Top(w).pc = "await" -> Pop(templateFinally(w))
      [] OTHER -> Pop(w)

\* the innermost activation is not waiting for a host callback
Runnable(w) == w.stack # <<>> /\ Top(w).pc \notin {"suspended", "waiting"}

\* one step of the evaluation: the innermost activation runs to its next await
Step(w) ==
    IF w.ret.k = "throw" THEN unwind(w)
    ELSE CASE Top(w).fn = "execute" -> execute(w)
           [] Top(w).fn = "evaluate" -> evaluate(w)
           [] Top(w).fn = "handleFixed" -> handleFixed(w)
           [] Top(w).fn = "handleVariadic" -> handleVariadic(w)
           [] Top(w).fn = "handleArg" -> handleArg(w)
           [] Top(w).fn = "handleLiteral" -> handleLiteral(w)
           [] Top(w).fn = "performCall" -> performCall(w)
           [] Top(w).fn = "repeat" -> repeat(w)
           [] Top(w).fn = "if" -> builtinIf(w)
           [] Top(w).fn = "runTemplate" -> runTemplate(w)
           [] Top(w).fn = "func" -> func(w)

-----------------------------------------------------------------------------
(* The sources the host executes. *)

\* left 1 up
Source1 == <<"l", "e", "f", "t", " ", "1", " ", "u", "p">>
\* repeat 2 [ up ]
Source2 == <<"r", "e", "p", "e", "a", "t", " ", "2", " ", "[", " ", "u", "p", " ", "]">>
\* to f :x left :x end f 2
Source3 == <<"t", "o", " ", "f", " ", ":", "x", " ", "l", "e", "f", "t", " ", ":", "x",
             " ", "e", "n", "d", " ", "f", " ", "2">>
\* wait 1 left 2
Source4 == <<"w", "a", "i", "t", " ", "1", " ", "l", "e", "f", "t", " ", "2">>
\* up 3
Source5 == <<"u", "p", " ", "3">>
\* [ up
Source6 == <<"[", " ", "u", "p">>

Sources == <<Source1, Source2, Source3, Source4, Source5, Source6>>

NumSources == Len(Sources)

\* The programs given to an interpreter that is left to itself.

\* to f if true [ output 1 ] output 2 end left f
OutputInIf == <<"t", "o", " ", "f", " ", "i", "f", " ", "t", "r", "u", "e",
                " ", "[", " ", "o", "u", "t", "p", "u", "t", " ", "1", " ",
                "]", " ", "o", "u", "t", "p", "u", "t", " ", "2", " ", "e",
                "n", "d", " ", "l", "e", "f", "t", " ", "f">>
\* to g repeat 2 [ up stop ] left 3 end g
StopInRepeat == <<"t", "o", " ", "g", " ", "r", "e", "p", "e", "a", "t", " ",
                  "2", " ", "[", " ", "u", "p", " ", "s", "t", "o", "p", " ",
                  "]", " ", "l", "e", "f", "t", " ", "3", " ", "e", "n", "d",
                  " ", "g">>

\* stop
TopStop == <<"s", "t", "o", "p">>
\* output 1
TopOutput == <<"o", "u", "t", "p", "u", "t", " ", "1">>

\* left
MissingArg == <<"l", "e", "f", "t">>
\* left difference 3
MissingNestedArg == <<"l", "e", "f", "t", " ", "d", "i", "f", "f", "e", "r",
                      "e", "n", "c", "e", " ", "3">>
\* left up
NoValueArg == <<"l", "e", "f", "t", " ", "u", "p">>
\* to f left end f
MissingArgInBody == <<"t", "o", " ", "f", " ", "l", "e", "f", "t", " ", "e",
                      "n", "d", " ", "f">>

\* ( left 1 )
VariadicExact == <<"(", " ", "l", "e", "f", "t", " ", "1", " ", ")">>
\* ( left 1 2 )
VariadicMore == <<"(", " ", "l", "e", "f", "t", " ", "1", " ", "2", " ", ")">>
\* ( left )
VariadicFew == <<"(", " ", "l", "e", "f", "t", " ", ")">>
\* ( left 1
VariadicOpen == <<"(", " ", "l", "e", "f", "t", " ", "1">>

\* 32
BareLiteral == <<"3", "2">>
\* left 1 2
ExtraArg == <<"l", "e", "f", "t", " ", "1", " ", "2">>

\* left if true [ 3 ]
BlockValue == <<"l", "e", "f", "t", " ", "i", "f", " ", "t", "r", "u", "e",
                " ", "[", " ", "3", " ", "]">>
\* left if true [ 1 2 3 ]
BlockValues == <<"l", "e", "f", "t", " ", "i", "f", " ", "t", "r", "u", "e",
                 " ", "[", " ", "1", " ", "2", " ", "3", " ", "]">>
\* 1 2
TopValues == <<"1", " ", "2">>
\* to h 1 2 end h
BodyValues == <<"t", "o", " ", "h", " ", "1", " ", "2", " ", "e", "n", "d",
                " ", "h">>

\* to p :n output product :n difference :n 1 end left p 3
Implicit == <<"t", "o", " ", "p", " ", ":", "n", " ", "o", "u", "t", "p", "u",
              "t", " ", "p", "r", "o", "d", "u", "c", "t", " ", ":", "n", " ",
              "d", "i", "f", "f", "e", "r", "e", "n", "c", "e", " ", ":", "n",
              " ", "1", " ", "e", "n", "d", " ", "l", "e", "f", "t", " ", "p",
              " ", "3">>
\* to p :n ( output ( product :n ( difference :n 1 ) ) ) end ( left ( p 3 ) )
Explicit == <<"t", "o", " ", "p", " ", ":", "n", " ", "(", " ", "o", "u", "t",
              "p", "u", "t", " ", "(", " ", "p", "r", "o", "d", "u", "c", "t",
              " ", ":", "n", " ", "(", " ", "d", "i", "f", "f", "e", "r", "e",
              "n", "c", "e", " ", ":", "n", " ", "1", " ", ")", " ", ")", " ",
              ")", " ", "e", "n", "d", " ", "(", " ", "l", "e", "f", "t", " ",
              "(", " ", "p", " ", "3", " ", ")", " ", ")">>

\* to m make "a" 5 end m left :a
MakeInBody == <<"t", "o", " ", "m", " ", "m", "a", "k", "e", " ", "\"", "a",
                "\"", " ", "5", " ", "e", "n", "d", " ", "m", " ", "l", "e",
                "f", "t", " ", ":", "a">>

\* to q left :x end to p :x q end p 4
DynamicScope == <<"t", "o", " ", "q", " ", "l", "e", "f", "t", " ", ":", "x",
                  " ", "e", "n", "d", " ", "t", "o", " ", "p", " ", ":", "x",
                  " ", "q", " ", "e", "n", "d", " ", "p", " ", "4">>

\* make "x" 1 to p :x make "x" 2 end p 3 left :x
ArgsAreLocals == <<"m", "a", "k", "e", " ", "\"", "x", "\"", " ", "1", " ",
                   "t", "o", " ", "p", " ", ":", "x", " ", "m", "a", "k", "e",
                   " ", "\"", "x", "\"", " ", "2", " ", "e", "n", "d", " ",
                   "p", " ", "3", " ", "l", "e", "f", "t", " ", ":", "x">>

\* to f up end make "f" 1 f
MakeOverProcedure == <<"t", "o", " ", "f", " ", "u", "p", " ", "e", "n", "d",
                       " ", "m", "a", "k", "e", " ", "\"", "f", "\"", " ",
                       "1", " ", "f">>
\* make "g" 1 to g up end left :g
ToOverVariable == <<"m", "a", "k", "e", " ", "\"", "g", "\"", " ", "1", " ",
                    "t", "o", " ", "g", " ", "u", "p", " ", "e", "n", "d",
                    " ", "l", "e", "f", "t", " ", ":", "g">>

\* to a up to b left 1 end end a b
ToInBody == <<"t", "o", " ", "a", " ", "u", "p", " ", "t", "o", " ", "b", " ",
              "l", "e", "f", "t", " ", "1", " ", "e", "n", "d", " ", "e", "n",
              "d", " ", "a", " ", "b">>
\* to c up to d left 1 end end to e d end c e
ToInBodyCalled == <<"t", "o", " ", "c", " ", "u", "p", " ", "t", "o", " ",
                    "d", " ", "l", "e", "f", "t", " ", "1", " ", "e", "n",
                    "d", " ", "e", "n", "d", " ", "t", "o", " ", "e", " ",
                    "d", " ", "e", "n", "d", " ", "c", " ", "e">>

\* to f :a :b up [ [ 1 ] 2 ] end up
ToWithArgs == <<"t", "o", " ", "f", " ", ":", "a", " ", ":", "b", " ", "u",
                "p", " ", "[", " ", "[", " ", "1", " ", "]", " ", "2", " ",
                "]", " ", "e", "n", "d", " ", "u", "p">>
\* repeat 1 [ to g up end ] left 1
ToInList == <<"r", "e", "p", "e", "a", "t", " ", "1", " ", "[", " ", "t", "o",
              " ", "g", " ", "u", "p", " ", "e", "n", "d", " ", "]", " ", "l",
              "e", "f", "t", " ", "1">>
\* to h [ 1 ] end up
ToBeforeList == <<"t", "o", " ", "h", " ", "[", " ", "1", " ", "]", " ", "e",
                  "n", "d", " ", "u", "p">>

\* left 1 [ up
UnclosedList == <<"l", "e", "f", "t", " ", "1", " ", "[", " ", "u", "p">>
\* left "a
UnclosedString == <<"l", "e", "f", "t", " ", "\"", "a">>
\* up to f up
ToWithoutEnd == <<"u", "p", " ", "t", "o", " ", "f", " ", "u", "p">>
\* up to f
ToWithoutBody == <<"u", "p", " ", "t", "o", " ", "f">>

\* ( left 1983 -273 1e2 1e-2 )
Numbers == <<"(", " ", "l", "e", "f", "t", " ", "1", "9", "8", "3", " ", "-",
             "2", "7", "3", " ", "1", "e", "2", " ", "1", "e", "-", "2", " ",
             ")">>
\* left 98.6
Fractional == <<"l", "e", "f", "t", " ", "9", "8", ".", "6">>
\* left 1e+2
PositiveExponent == <<"l", "e", "f", "t", " ", "1", "e", "+", "2">>
\* (left -273)
NegativeDelimited == <<"(", "l", "e", "f", "t", " ", "-", "2", "7", "3", ")">>

\* left "hi\ there
OpenEscaped == <<"l", "e", "f", "t", " ", "\"", "h", "i", "\\", " ", "t", "h",
                 "e", "r", "e">>

\* left 1 + 2
InfixSum == <<"l", "e", "f", "t", " ", "1", " ", "+", " ", "2">>
\* left 3 * 4 + 2
InfixPrecedence == <<"l", "e", "f", "t", " ", "3", " ", "*", " ", "4", " ",
                     "+", " ", "2">>
\* left ( 2 + 3 ) * 4
InfixParens == <<"l", "e", "f", "t", " ", "(", " ", "2", " ", "+", " ", "3",
                 " ", ")", " ", "*", " ", "4">>
\* to y :n output :n end make "a" 8 left 2 * y :a + 9
InfixAfterCall == <<"t", "o", " ", "y", " ", ":", "n", " ", "o", "u", "t",
                    "p", "u", "t", " ", ":", "n", " ", "e", "n", "d", " ",
                    "m", "a", "k", "e", " ", "\"", "a", "\"", " ", "8", " ",
                    "l", "e", "f", "t", " ", "2", " ", "*", " ", "y", " ",
                    ":", "a", " ", "+", " ", "9">>
\* make "a" 8 left 2 * :a + 9
InfixFlat == <<"m", "a", "k", "e", " ", "\"", "a", "\"", " ", "8", " ", "l",
               "e", "f", "t", " ", "2", " ", "*", " ", ":", "a", " ", "+",
               " ", "9">>

\* to k :h h end k :up
PassFunction == <<"t", "o", " ", "k", " ", ":", "h", " ", "h", " ", "e", "n",
                  "d", " ", "k", " ", ":", "u", "p">>
\* make "j" :up j
CallVariable == <<"m", "a", "k", "e", " ", "\"", "j", "\"", " ", ":", "u",
                  "p", " ", "j">>

\* ifelse true [ left 1 ] [ left 2 ]
IfelseThen == <<"i", "f", "e", "l", "s", "e", " ", "t", "r", "u", "e", " ",
                "[", " ", "l", "e", "f", "t", " ", "1", " ", "]", " ", "[",
                " ", "l", "e", "f", "t", " ", "2", " ", "]">>
\* ifelse difference 1 1 [ left 1 ] [ left 2 ]
IfelseElse == <<"i", "f", "e", "l", "s", "e", " ", "d", "i", "f", "f", "e",
                "r", "e", "n", "c", "e", " ", "1", " ", "1", " ", "[", " ",
                "l", "e", "f", "t", " ", "1", " ", "]", " ", "[", " ", "l",
                "e", "f", "t", " ", "2", " ", "]">>

\* make "x" 1 apply [ [ x ] left :x ] [ 2 ] left :x
TemplateShadows == <<"m", "a", "k", "e", " ", "\"", "x", "\"", " ", "1", " ",
                     "a", "p", "p", "l", "y", " ", "[", " ", "[", " ", "x",
                     " ", "]", " ", "l", "e", "f", "t", " ", ":", "x", " ",
                     "]", " ", "[", " ", "2", " ", "]", " ", "l", "e", "f",
                     "t", " ", ":", "x">>
\* to t apply [ [ x ] output :x ] [ 7 ] left 2 end left t
TemplateOutputs == <<"t", "o", " ", "t", " ", "a", "p", "p", "l", "y", " ",
                     "[", " ", "[", " ", "x", " ", "]", " ", "o", "u", "t",
                     "p", "u", "t", " ", ":", "x", " ", "]", " ", "[", " ",
                     "7", " ", "]", " ", "l", "e", "f", "t", " ", "2", " ",
                     "e", "n", "d", " ", "l", "e", "f", "t", " ", "t">>
\* apply [ [ x ] left ] [ 1 ]
TemplateThrows == <<"a", "p", "p", "l", "y", " ", "[", " ", "[", " ", "x",
                    " ", "]", " ", "l", "e", "f", "t", " ", "]", " ", "[",
                    " ", "1", " ", "]">>
\* apply [ [ x ] left 1 ] [ ]
TemplateShort == <<"a", "p", "p", "l", "y", " ", "[", " ", "[", " ", "x", " ",
                   "]", " ", "l", "e", "f", "t", " ", "1", " ", "]", " ", "[",
                   " ", "]">>
\* apply [ [ x y ] left 1 ] [ ]
TemplateShorter == <<"a", "p", "p", "l", "y", " ", "[", " ", "[", " ", "x",
                     " ", "y", " ", "]", " ", "l", "e", "f", "t", " ", "1",
                     " ", "]", " ", "[", " ", "]">>

\* to r :n if :n [ output product :n r difference :n 1 ] output 1 end left r 3
Factorial == <<"t", "o", " ", "r", " ", ":", "n", " ", "i", "f", " ", ":",
               "n", " ", "[", " ", "o", "u", "t", "p", "u", "t", " ", "p",
               "r", "o", "d", "u", "c", "t", " ", ":", "n", " ", "r", " ",
               "d", "i", "f", "f", "e", "r", "e", "n", "c", "e", " ", ":",
               "n", " ", "1", " ", "]", " ", "o", "u", "t", "p", "u", "t",
               " ", "1", " ", "e", "n", "d", " ", "l", "e", "f", "t", " ",
               "r", " ", "3">>
\* to u stop end to v u up end v
CalleeStops == <<"t", "o", " ", "u", " ", "s", "t", "o", "p", " ", "e", "n",
                 "d", " ", "t", "o", " ", "v", " ", "u", " ", "u", "p", " ",
                 "e", "n", "d", " ", "v">>

Programs == <<OutputInIf, StopInRepeat, TopStop, TopOutput, MissingArg,
              MissingNestedArg, NoValueArg, MissingArgInBody, VariadicExact,
              VariadicMore, VariadicFew, VariadicOpen, BareLiteral, ExtraArg,
              BlockValue, BlockValues, TopValues, BodyValues, Implicit,
              Explicit, MakeInBody, DynamicScope, ArgsAreLocals,
              MakeOverProcedure, ToOverVariable, ToInBody, ToInBodyCalled,
              ToWithArgs, ToInList, ToBeforeList, UnclosedList,
              UnclosedString, ToWithoutEnd, ToWithoutBody, Numbers,
              Fractional, PositiveExponent, NegativeDelimited, OpenEscaped,
              InfixSum, InfixPrecedence, InfixParens, InfixAfterCall,
              InfixFlat, PassFunction, CallVariable, IfelseThen, IfelseElse,
              TemplateShadows, TemplateOutputs, TemplateThrows, TemplateShort,
              TemplateShorter, Factorial, CalleeStops>>

\* the argument of execute(): the sources first, the programs after them
Source(i) == (Sources \o Programs)[i]

\* execute(p) for the program p
Program(p) == CHOOSE i \in (NumSources + 1)..(NumSources + Len(Programs)) : Source(i) = p

-----------------------------------------------------------------------------
(* List and ListBuilder (97-377), by identity.  lists.nodes[id] is the List *)
(* record id, and a list value is a reference to its first record.  The     *)
(* programs above never change a record, so they carry their lists as       *)
(* sequences; here the records themselves are the state.                    *)

\* List.empty (377): the first record ever made
ListEmpty == 1

\* a List as a value
ListRef(id) == [t |-> "object", id |-> id]

\* new ListBuilder() (98-101)
NewBuilder == [list |-> ListEmpty, end |-> ListEmpty]

\* the records and the builder once the module is loaded; `thrown` is what
\* the last call threw, `hung` that it never returns, `compared` the last
\* call of List.equal with its answer
ListInit ==
    [nodes |-> <<[head |-> ListRef(ListEmpty), tail |-> ListEmpty]>>,
     builder |-> NewBuilder, thrown |-> "", hung |-> FALSE, compared |-> <<>>]

\* new List(head, tail) (185-196) once List.empty exists: the new record is
\* the last of nodes
newList(S, head, tail) ==
    IF head = Undefined THEN [S EXCEPT !.thrown = "TypeError"]
    ELSE [S EXCEPT !.nodes = Append(@, [head |-> head, tail |-> tail])]

\* ListBuilder.push (114-121)
push(S, val) ==
    LET n == newList(S, val, ListEmpty)
        id == Len(n.nodes)
    IN  IF n.thrown # "" THEN n
        ELSE IF S.builder.list = ListEmpty
             THEN [n EXCEPT !.builder = [list |-> id, end |-> id]]
        ELSE [n EXCEPT !.nodes[S.builder.end].tail = id, !.builder.end = id]

\* the callbacks given to filter and map
callback(f, val) == IF f = "identity" THEN val ELSE Bool(isNumber(val))

\* a loop over the cursors of a list (List.iterator, 218-225) that pushes
\* to the builder: every head for concat (131-135), the heads the callback
\* accepts for filter (266-274), the callback's results for map (280-287).
\* The tail is read after the push.  A loop that outlasts the records there
\* were at its start never ends.
RECURSIVE pushEach(_, _, _, _, _)
pushEach(S, cursor, fuel, loop, f) ==
    IF cursor = ListEmpty THEN S
    ELSE IF fuel = 0 THEN [S EXCEPT !.hung = TRUE]
    ELSE LET head == S.nodes[cursor].head
             n == CASE loop = "concat" -> push(S, head)
                    [] loop = "filter" ->
                          IF truthy(callback(f, head)) THEN push(S, head) ELSE S
                    [] loop = "map" -> push(S, callback(f, head))
         IN  IF n.thrown # "" THEN n
             ELSE pushEach(n, n.nodes[cursor].tail, fuel - 1, loop, f)

\* what a call that never returns leaves: nothing anyone sees
never(S) == [S EXCEPT !.hung = TRUE]

\* ListBuilder.concat (131-135), on a List
concat(S, list) ==
    LET r == pushEach(S, list, Len(S.nodes), "concat", "identity")
    IN  IF r.hung THEN never(S) ELSE r

\* List.end (300-306): the last record of the list, the list itself when it
\* is empty, 0 when the loop never ends
RECURSIVE endFrom(_, _, _, _)
endFrom(nodes, end, cursor, fuel) ==
    IF cursor = ListEmpty THEN end
    ELSE IF fuel = 0 THEN 0
    ELSE endFrom(nodes, cursor, nodes[cursor].tail, fuel - 1)

listEnd(nodes, list) == endFrom(nodes, list, list, Len(nodes))

\* ListBuilder.attach (147-154)
attach(S, list) ==
    LET n == IF S.builder.list = ListEmpty THEN [S EXCEPT !.builder.list = list]
             ELSE [S EXCEPT !.nodes[S.builder.end].tail = list]
        e == listEnd(n.nodes, list)
    IN  IF e = 0 THEN never(n) ELSE [n EXCEPT !.builder.end = e]

\* a call that builds a list with a builder of its own and returns it
built(S, r) ==
    IF r.hung THEN never(S) ELSE [r EXCEPT !.builder = S.builder]

\* List.from (326-330), on a List; List.clone (344-346) is the same
from(S, source) ==
    built(S, pushEach([S EXCEPT !.builder = NewBuilder], source, Len(S.nodes),
                      "concat", "identity"))

\* List.filter (266-274) and List.map (280-287)
filter(S, list, f) ==
    built(S, pushEach([S EXCEPT !.builder = NewBuilder], list, Len(S.nodes),
                      "filter", f))
map(S, list, f) ==
    built(S, pushEach([S EXCEPT !.builder = NewBuilder], list, Len(S.nodes),
                      "map", f))

\* List.reverse (247-260)
RECURSIVE reverseList(_, _, _, _)
reverseList(S, list, rest, fuel) ==
    IF list = ListEmpty THEN S
    ELSE IF fuel = 0 THEN [S EXCEPT !.hung = TRUE]
    ELSE LET n == newList(S, S.nodes[list].head, rest)
             id == Len(n.nodes)
         IN  IF S.nodes[list].tail = ListEmpty THEN n
             ELSE reverseList(n, S.nodes[list].tail, id, fuel - 1)

reverse(S, list) ==
    LET r == reverseList(S, list, ListEmpty, Len(S.nodes))
    IN  IF r.hung THEN never(S) ELSE r

\* List.equal (308-319): === is identity for lists and the value for atoms
RECURSIVE equal(_, _, _)
equal(nodes, a, b) ==
    IF a = b THEN TRUE
    ELSE IF ~isList(a) \/ ~isList(b) THEN FALSE
    ELSE IF ~equal(nodes, nodes[a.id].head, nodes[b.id].head) THEN FALSE
    ELSE equal(nodes, ListRef(nodes[a.id].tail), ListRef(nodes[b.id].tail))

\* List.empty is as the constructor made it: its own head and its own tail
Intact(nodes) ==
    nodes[ListEmpty] = [head |-> ListRef(ListEmpty), tail |-> ListEmpty]

\* the records that record n refers to; the references of an intact
\* List.empty to itself are not counted
Refs(nodes, n) ==
    IF n = ListEmpty /\ Intact(nodes) THEN {}
    ELSE {nodes[n].tail} \cup
         (IF isList(nodes[n].head) THEN {nodes[n].head.id} ELSE {})

RECURSIVE Reach(_, _, _)
Reach(nodes, seen, k) ==
    IF k = 0 THEN seen
    ELSE Reach(nodes, seen \cup UNION {Refs(nodes, n) : n \in seen}, k - 1)

\* record n is reached from its own tail by following tails
RECURSIVE tailReaches(_, _, _, _)
tailReaches(nodes, at, n, fuel) ==
    IF at = n THEN TRUE
    ELSE IF fuel = 0 \/ (at = ListEmpty /\ nodes[ListEmpty].tail = ListEmpty)
         THEN FALSE
    ELSE tailReaches(nodes, nodes[at].tail, n, fuel - 1)

OnCycle(nodes, n) == tailReaches(nodes, nodes[n].tail, n, Len(nodes))

\* no record but List.empty refers to itself, through heads or tails
Proper(nodes) ==
    /\ Intact(nodes)
    /\ \A n \in 2..Len(nodes) : n \notin Reach(nodes, Refs(nodes, n), Len(nodes))

\* the elements of a proper list, in order
RECURSIVE Elements(_, _)
Elements(nodes, list) ==
    IF list = ListEmpty THEN <<>>
    ELSE <<nodes[list].head>> \o Elements(nodes, nodes[list].tail)

\* two values are the same atom, or lists of the same length whose elements
\* are pairwise the same
RECURSIVE Same(_, _, _)
Same(nodes, a, b) ==
    IF isList(a) /\ isList(b)
    THEN LET x == Elements(nodes, a.id)
             y == Elements(nodes, b.id)
         IN  /\ Len(x) = Len(y)
             /\ \A k \in DOMAIN x : Same(nodes, x[k], y[k])
    ELSE a = b

-----------------------------------------------------------------------------
(* The initial state: new Interpreter() (949-974), and the host's           *)
(* bindValues of its own procedures (1830).                                 *)

NoRun == [n |-> 0, source |-> 0, pauses |-> 0, resumed |-> FALSE, broke |-> FALSE,
          brokeAt |-> "", raised |-> FALSE, passed |-> 0, values |-> 0,
          entered |-> 0]

Init ==
    /\ logo = [running |-> FALSE, breakFlag |-> FALSE, paused |-> FALSE,
               onbreak |-> Null, oncontinue |-> Null,
               scopes |-> <<1>>, contexts |-> <<Context>>]
    /\ heap = bindValues(bindValues(newScope(<<>>, 0), 1, builtins), 1, api)
    /\ stack = <<>>
    /\ ret = NoRet
    /\ timer = NoTimer
    /\ outcome = "none"
    /\ hostResult = [op |-> "none", res |-> "none"]
    /\ calls = <<>>
    /\ run = NoRun
    /\ start = World
    /\ lists = ListInit

\* the variables take the fields of the record n
Commit(n) ==
    \E w \in {n} :
        /\ logo' = w.logo
        /\ heap' = w.heap
        /\ stack' = w.stack
        /\ ret' = w.ret
        /\ timer' = w.timer
        /\ outcome' = w.outcome
        /\ calls' = w.calls
        /\ run' = w.run
        /\ UNCHANGED lists

-----------------------------------------------------------------------------
(* The evaluation.  The host shares with it the fields running, paused,     *)
(* breakFlag, onbreak and oncontinue and the timer, and sees the procedures *)
(* it invokes.  The evaluation reads or writes these in checkBreak, in      *)
(* func.apply and in the finally of execute only: what it does in between   *)
(* commutes with every call of the host, and is done in one go.             *)

\* the host call that came before has returned
HostIdle == hostResult' = [op |-> "none", res |-> "none"]

\* the next step is one the host cannot tell from the one before
Quiet(w) ==
    /\ Runnable(w)
    /\ Top(w).fn # "execute"
    /\ ~(Top(w).fn = "performCall" /\ Top(w).pc \in {"start", "passed"})

\* the steps up to the next one that touches what the host shares
RECURSIVE Advance(_, _)
Advance(w, fuel) ==
    CHOOSE r \in {IF fuel = 0 \/ ~Quiet(s) THEN s ELSE Advance(Step(s), fuel - 1) :
                      s \in {w}} : TRUE

At(fn, pcs) == stack # <<>> /\ Top(World).fn = fn /\ Top(World).pc \in pcs

\* a call reaches its checkpoint: await this.checkBreak() (1397)
CheckBreak ==
    /\ At("performCall", {"start"})
    /\ Commit(Advance(Step(World), MaxSteps))
    /\ HostIdle /\ UNCHANGED start

\* the call is made: func.apply(this, args) (1401), and the evaluation goes
\* on to the next checkpoint
Apply ==
    /\ At("performCall", {"passed"})
    /\ Commit(Advance(Step(World), MaxSteps))
    /\ HostIdle /\ UNCHANGED start

\* the evaluation is over: the finally of execute (1611-1615)
Settle ==
    /\ At("execute", {"await"})
    /\ Commit(Step(World))
    /\ HostIdle /\ UNCHANGED start

\* the timer of wait fires (749-752)
timerFires(w) ==
    LET w1 == [w EXCEPT !.timer = NoTimer, !.logo.onbreak = Null]
    IN  IF w.stack # <<>> /\ Top(w).pc = "waiting" /\ Top(w).pid = w.timer.id
        THEN [SetTop(w1, [Top(w) EXCEPT !.pc = "apply"]) EXCEPT !.ret = Returned(Undefined)]
        ELSE w1

TimerFires ==
    /\ timer.armed
    /\ Commit(Advance(timerFires(World), MaxSteps))
    /\ HostIdle /\ UNCHANGED start

-----------------------------------------------------------------------------
(* The host's calls. *)

Result(op, res) == [op |-> op, res |-> res]

\* Interpreter.execute (1598-1608), up to the first await: the source is
\* tokenized and parsed, and the evaluation of a well-formed one is begun
executeBegin(w, i) ==
    LET tokens == tokenize(Source(i))
        parsed == parse(tokens.tokens)
        failed == IF tokens.err # "" THEN tokens.err ELSE parsed.err
        began == [n |-> w.run.n + 1, source |-> i, pauses |-> w.run.pauses,
                  resumed |-> FALSE, broke |-> FALSE, brokeAt |-> "",
                  raised |-> FALSE, passed |-> 0, values |-> 0, entered |-> 0]
        w1 == [w EXCEPT !.calls = <<>>, !.run = began]
    IN  IF failed # "" THEN [w1 EXCEPT !.outcome = failed]
        ELSE [w1 EXCEPT !.logo.running = TRUE, !.outcome = "pending",
                        !.stack = <<[Frame("execute") EXCEPT !.pc = "await"],
                                    evaluateFrame(w1, parsed.parsed)>>]

\* a call of execute that takes no notice of a run in progress
executeCall_reentrant(w, i) ==
    [err |-> "", w |-> executeBegin(w, i)]

\* Interpreter.execute (1598-1601): the world after the call, and what it threw
executeCall(w, i) ==
    IF w.logo.running THEN [err |-> "Error", w |-> w]
    ELSE [err |-> "", w |-> executeBegin(w, i)]

Execute(i) ==
    /\ logo.running \/ run.n < MaxRuns
    /\ \E r \in {executeCall(World, i)} :
          /\ Commit(Advance(r.w, MaxSteps))
          /\ start' = IF r.err = "" THEN r.w ELSE start
          /\ hostResult' = Result("execute", IF r.err = "" THEN "ok" ELSE r.err)

\* Interpreter.pause (1641-1649): the world after it, and what it threw
pause(w) ==
    IF ~w.logo.running THEN [err |-> "Error", w |-> w]
    ELSE IF w.logo.paused THEN [err |-> "Error", w |-> w]
    ELSE [err |-> "", w |-> [w EXCEPT !.logo.paused = TRUE, !.run.pauses = @ + 1]]

Pause ==
    LET r == pause(World)
    IN  /\ r.err = "" => run.pauses < MaxPauses
        /\ Commit(r.w)
        /\ hostResult' = Result("pause", IF r.err = "" THEN "ok" ELSE r.err)
        /\ UNCHANGED start

\* this.oncontinue() (1659): null is no function
callOncontinue(w) ==
    IF w.logo.oncontinue = Null THEN [err |-> "TypeError", w |-> w]
    ELSE [err |-> "", w |-> resolveCheckBreak(w, w.logo.oncontinue.id)]

\* Interpreter.continue (1651-1660): the world after it, and what it threw
continue(w) ==
    IF ~w.logo.running THEN [err |-> "Error", w |-> w]
    ELSE IF ~w.logo.paused THEN [err |-> "Error", w |-> w]
    ELSE callOncontinue([w EXCEPT !.logo.paused = FALSE])

Continue ==
    LET r == continue(World)
    IN  /\ Commit(r.w)
        /\ hostResult' = Result("continue", IF r.err = "" THEN "ok" ELSE r.err)
        /\ UNCHANGED start

\* an onbreak of checkBreak that clears oncontinue and rejects nothing
callOnbreak_forgets(w) ==
    LET cb == w.logo.onbreak
    IN  IF cb.kind = "checkBreak"
        THEN [w EXCEPT !.logo.oncontinue = Null]
        ELSE rejectPromise([w EXCEPT !.timer =
                                 IF w.timer.id = cb.id THEN NoTimer ELSE @], cb.id)

\* an onbreak of wait that rejects the promise and leaves the timer set
callOnbreak_keepsTimer(w) ==
    LET cb == w.logo.onbreak
    IN  IF cb.kind = "checkBreak"
        THEN rejectPromise([w EXCEPT !.logo.oncontinue = Null], cb.id)
        ELSE rejectPromise(w, cb.id)

\* this.onbreak(reason) (1682), for the closure of checkBreak (1631-1634)
\* or of wait (753-756)
callOnbreak(w) ==
    LET cb == w.logo.onbreak
    IN  IF cb.kind = "checkBreak"
        THEN rejectPromise([w EXCEPT !.logo.oncontinue = Null], cb.id)
        ELSE rejectPromise([w EXCEPT !.timer =
                                 IF w.timer.id = cb.id THEN NoTimer ELSE @], cb.id)

\* a break that does not look for a break already requested
break_twice(w) ==
    IF ~w.logo.running THEN [err |-> "Error", w |-> w]
    ELSE LET w1 == [w EXCEPT !.logo.breakFlag = TRUE, !.run.broke = TRUE,
                             !.run.brokeAt = Top(w).pc]
             w2 == IF w1.logo.onbreak # Null THEN callOnbreak(w1) ELSE w1
         IN  IF w2.logo.paused THEN continue(w2) ELSE [err |-> "", w |-> w2]

\* Interpreter.break (1666-1688): the world after it, and what it threw
break(w) ==
    IF ~w.logo.running THEN [err |-> "Error", w |-> w]
    ELSE IF w.logo.breakFlag THEN [err |-> "Error", w |-> w]
    ELSE LET w1 == [w EXCEPT !.logo.breakFlag = TRUE, !.run.broke = TRUE,
                             !.run.brokeAt = Top(w).pc]
             w2 == IF w1.logo.onbreak # Null THEN callOnbreak(w1) ELSE w1
         IN  IF w2.logo.paused THEN continue(w2) ELSE [err |-> "", w |-> w2]

Break ==
    LET r == break(World)
    IN  /\ Commit(Advance(r.w, MaxSteps))
        /\ hostResult' = Result("break", IF r.err = "" THEN "ok" ELSE r.err)
        /\ UNCHANGED start

-----------------------------------------------------------------------------

Next ==
    \/ \E i \in 1..NumSources : Execute(i)
    \/ Pause
    \/ Continue
    \/ Break
    \/ TimerFires
    \/ CheckBreak
    \/ Apply
    \/ Settle

Spec == Init /\ [][Next]_vars

\* An interpreter whose host calls execute() when nothing is running, and
\* calls nothing else: every program is evaluated to its end.
Run(i) ==
    /\ ~logo.running /\ run.n < MaxPrograms
    /\ \E r \in {executeCall(World, i)} :
          /\ Commit(Advance(r.w, MaxSteps))
          /\ start' = r.w
          /\ hostResult' = Result("execute", "ok")

EvalNext ==
    \/ \E i \in (NumSources + 1)..(NumSources + Len(Programs)) : Run(i)
    \/ CheckBreak
    \/ Apply
    \/ Settle

EvalSpec == Init /\ [][EvalNext]_vars

\* The same interpreter, given the programs that call procedures of their
\* own, with a host that may call break() at any time.
Interrupted == {OutputInIf, StopInRepeat, MissingArgInBody, Implicit,
                DynamicScope, ToInBody}

BreakNext ==
    \/ \E p \in Interrupted : Run(Program(p))
    \/ CheckBreak
    \/ Apply
    \/ Settle
    \/ Break

BreakSpec == Init /\ [][BreakNext]_vars

\* The continuation of a settled promise is run by the microtask queue, and
\* a timer that is set and not cleared fires: the evaluation is not left
\* standing where it can go on.  Nothing makes the host call anything.
Evaluation == HostIdle /\ (CheckBreak \/ Apply \/ Settle \/ TimerFires)

\* execute() on an interpreter that has run nothing yet, or in its first run
ExecuteFirst(i) == (logo.running \/ run.n = 0) /\ Execute(i) /\ run'.n <= 1

FirstRun ==
    \/ \E i \in 1..NumSources : ExecuteFirst(i)
    \/ Pause
    \/ Continue
    \/ Break
    \/ TimerFires
    \/ CheckBreak
    \/ Apply
    \/ Settle

\* the first run of an interpreter, with an evaluation that is not left
\* standing
FairSpec == Init /\ [][FirstRun]_vars /\ WF_vars(Evaluation)

-----------------------------------------------------------------------------
(* JavaScript code that uses List and ListBuilder: one builder at a time,   *)
(* and any record that exists as a list.                                    *)

\* the values there are to push
Values == {Num(1)} \cup {ListRef(id) : id \in DOMAIN lists.nodes}

\* a call turns the records into r
Called(r) ==
    /\ ~lists.hung
    /\ Len(r.nodes) <= MaxNodes
    /\ lists' = r
    /\ UNCHANGED <<logo, heap, stack, ret, timer, outcome, hostResult, calls,
                   run, start>>

\* the records before a call
Before == [lists EXCEPT !.thrown = "", !.compared = <<>>]

Build == Called([Before EXCEPT !.builder = NewBuilder])

\* new List(head), and new List() without a head
Construct ==
    \E head \in Values \cup {Undefined} : Called(newList(Before, head, ListEmpty))

Push == \E val \in Values \cup {Undefined} : Called(push(Before, val))

Concat == \E list \in DOMAIN lists.nodes : Called(concat(Before, list))

Attach == \E list \in DOMAIN lists.nodes : Called(attach(Before, list))

From == \E list \in DOMAIN lists.nodes : Called(from(Before, list))

Reverse == \E list \in DOMAIN lists.nodes : Called(reverse(Before, list))

Filter == \E list \in DOMAIN lists.nodes : Called(filter(Before, list, "isNumber"))

Map == \E list \in DOMAIN lists.nodes : Called(map(Before, list, "identity"))

\* List.equal(a, b) on the builder's list and another, where no list
\* contains itself
Equal ==
    /\ Proper(lists.nodes)
    /\ \E a \in {lists.builder.list}, b \in DOMAIN lists.nodes :
          Called([Before EXCEPT !.compared =
                     <<a, b, equal(lists.nodes, ListRef(a), ListRef(b))>>])

ListNext ==
    \/ Build
    \/ Construct
    \/ Push
    \/ Concat
    \/ Attach
    \/ From
    \/ Reverse
    \/ Filter
    \/ Map
    \/ Equal

ListSpec == Init /\ [][ListNext]_vars

-----------------------------------------------------------------------------
(* The run state of the interpreter, as the host finds it. *)

\* the promise of the last execute() is settled
Settled == outcome \notin {"none", "pending"}

\* the three flags of the run state
Flags(l) == <<l.running, l.paused, l.breakFlag>>

\* C1: a call of execute() made while a run is in flight throws at once,
\* evaluates nothing of the new source and leaves the run as it is: running
\* stays true, and the scope and context stacks, the bindings, the pending
\* evaluation and the pause and break flags are unchanged.
C1_ExecuteWhileRunning ==
    [][(logo.running /\ hostResult'.op = "execute")
         => /\ hostResult'.res = "Error"
            /\ logo'.running
            /\ UNCHANGED <<logo, heap, stack, ret, timer, outcome, calls>>]_vars

\* a second execute() has been turned away in the middle of a run
C1_Witness ==
    /\ hostResult = Result("execute", "Error")
    /\ logo.running /\ Len(stack) > 1 /\ calls # <<>>

\* C2: whenever the promise of execute() is settled, by completion, by an
\* error of the parser or of the evaluation, or by a break, the running flag
\* and the break flag are both false.
C2_SettledClearsRunningAndBreak ==
    Settled => ~logo.running /\ ~logo.breakFlag

\* a run that break() had flagged has settled as cancelled
C2_Witness ==
    /\ outcome = BreakRequested /\ run.broke /\ run.raised
    /\ ~logo.running /\ ~logo.breakFlag

\* C3: when the promise of execute() is settled, running, breakFlag and
\* paused are all back at their idle value, so that paused is never true
\* while running is false.
C3_SettledIsIdle ==
    /\ Settled => Flags(logo) = <<FALSE, FALSE, FALSE>>
    /\ ~logo.running => ~logo.paused

\* C4: pause() when not running or already paused, continue() when not
\* running or not paused, and break() when not running or with a break
\* already requested each throw the usage error and leave running, paused
\* and breakFlag as they were.
C4_UsageErrors ==
    [][/\ (hostResult'.op = "pause" /\ (~logo.running \/ logo.paused))
            => (hostResult'.res = "Error" /\ Flags(logo') = Flags(logo))
       /\ (hostResult'.op = "continue" /\ (~logo.running \/ ~logo.paused))
            => (hostResult'.res = "Error" /\ Flags(logo') = Flags(logo))
       /\ (hostResult'.op = "break" /\ (~logo.running \/ logo.breakFlag))
            => (hostResult'.res = "Error" /\ Flags(logo') = Flags(logo))]_vars

\* break() has been turned away in a run that already has a break requested
C4_Witness ==
    /\ hostResult = Result("break", "Error")
    /\ logo.running /\ logo.breakFlag

\* C5: if break() is called while the run is held at a checkpoint by
\* pause(), the pending execute() eventually settles as cancelled, with the
\* break error.
C5_BreakWhileSuspendedSettles ==
    (outcome = "pending" /\ run.brokeAt = "suspended") ~> (outcome = BreakRequested)

\* a run that break() found held at a checkpoint has settled as cancelled
C5_Witness ==
    /\ outcome = BreakRequested /\ run.brokeAt = "suspended"
    /\ run.pauses > 0 /\ ~logo.running

-----------------------------------------------------------------------------
(* Pause, continue and break against the calls the evaluation makes. *)

\* the function and the await of the innermost activation of a stack
TopFn(st) == IF st = <<>> THEN "" ELSE st[Len(st)].fn
TopPc(st) == IF st = <<>> THEN "" ELSE st[Len(st)].pc

\* a step within one run
SameRun == run'.n = run.n

\* the step, if it invokes anything, invokes the one call that had passed
\* its checkpoint before
OnlyThePassedCall ==
    calls' # calls =>
        /\ TopFn(stack) = "performCall" /\ TopPc(stack) = "passed"
        /\ Len(calls') = Len(calls) + 1

\* the evaluation takes a call through checkBreak
AtCheckpoint ==
    TopFn(stack) = "performCall" /\ TopPc(stack) = "start" /\ stack' # stack

\* C6 as stated: from the moment pause() is accepted until continue() or
\* break() is called, no procedure is invoked.
C6_NothingInvokedWhilePaused ==
    [][(logo.paused /\ logo'.paused /\ SameRun) => calls' = calls]_vars

\* C6 as amended: from the moment pause() is accepted until continue() or
\* break() is called, no call passes its checkpoint, and a call that comes
\* to its checkpoint is held there; the one call that had passed its
\* checkpoint when pause() was accepted is still invoked.
C6_NoCheckpointPassedWhilePaused ==
    [][(logo.paused /\ logo'.paused /\ SameRun)
         => /\ run'.passed = run.passed
            /\ OnlyThePassedCall
            /\ (AtCheckpoint /\ ~logo.breakFlag) => TopPc(stack') = "suspended"]_vars

\* an iteration of a repeat loop is held at its checkpoint, after an earlier
\* one was made
C6_Witness ==
    /\ logo.paused /\ TopPc(stack) = "suspended"
    /\ run.source = 2 /\ Len(calls) > 1

C9_NothingInvokedAfterBreak ==
    [][(logo.breakFlag /\ SameRun) => calls' = calls]_vars

\* C9 as amended: after break() has been accepted, no call passes a
\* checkpoint: the next call that comes to its checkpoint raises the break
\* error, and the evaluation unwinds to execute() without invoking
\* anything; the one call that had passed its checkpoint when break() was
\* accepted is still invoked.
C9_NoCheckpointPassedAfterBreak ==
    [][(logo.breakFlag /\ SameRun)
         => /\ run'.passed = run.passed
            /\ OnlyThePassedCall
            /\ AtCheckpoint => /\ ret' = Thrown(BreakRequested)
                               /\ Len(stack') = 1 /\ calls' = calls]_vars

\* a checkpoint has raised the break error after an earlier call was made
C9_Witness ==
    /\ logo.breakFlag /\ run.raised /\ run.brokeAt \in {"start", "passed"}
    /\ ret = Thrown(BreakRequested) /\ Len(stack) = 1 /\ calls # <<>>

\* C10: every evaluation of a literal or of a variable reference passes a
\* checkpoint first, as every procedure call does: with paused set the
\* evaluation gets past no literal and no :variable, and with the break
\* flag set none is evaluated.
C10_LiteralsAreCheckpoints ==
    [][((logo.paused \/ logo.breakFlag) /\ SameRun)
         => run'.values = run.values]_vars

-----------------------------------------------------------------------------
(* A run against the same program run with no pause. *)

\* the evaluation left to itself: it goes on where it can, and the timer of
\* a wait fires
RECURSIVE runOn(_, _)
runOn(w, fuel) ==
    IF fuel = 0 THEN w
    ELSE IF Runnable(w)
         THEN CHOOSE r \in {runOn(s, fuel - 1) : s \in {Step(w)}} : TRUE
    ELSE IF w.timer.armed
         THEN CHOOSE r \in {runOn(s, fuel - 1) : s \in {timerFires(w)}} : TRUE
    ELSE w

\* the run that execute() began in the state `start`, with no pause pending
\* and none to come
Unpaused == runOn([start EXCEPT !.logo.paused = FALSE], MaxSteps)

\* s is the beginning of t
IsPrefix(s, t) == Len(s) <= Len(t) /\ SubSeq(t, 1, Len(s)) = s

\* C7: a run that is paused and continued, any number of times and
\* wherever, invokes the procedures that the same program invokes when run
\* with no pause, in the same order and with the same arguments, and settles
\* with the same outcome and bindings; nothing done before a pause is done
\* again after continue().
C7_PausedRunEqualsUnpaused ==
    (run.n > 0 /\ ~run.broke)
        => /\ IsPrefix(calls, Unpaused.calls)
           /\ Settled => /\ calls = Unpaused.calls
                         /\ outcome = Unpaused.outcome
                         /\ heap = Unpaused.heap

\* a run that was held at a checkpoint and continued has settled after
\* several calls
C7_Witness ==
    /\ Settled /\ run.resumed /\ ~run.broke
    /\ outcome = "success" /\ Len(calls) > 1

-----------------------------------------------------------------------------
(* break() against a pending wait. *)

\* break() is taken while the evaluation stands in a wait whose timer is set
BreaksWait ==
    /\ TopPc(stack) = "waiting" /\ timer.armed
    /\ logo.running /\ ~logo.breakFlag
    /\ hostResult'.op = "break"

\* the timer of a wait goes off
TimerGoesOff == timer.armed /\ hostResult'.op = "none" /\ ~timer'.armed

\* C11: a break() called while the timer of a wait is pending clears the
\* timer and rejects the promise of the wait with the break error, which
\* unwinds to execute() at once, no timer being left to wait for; a timer
\* that fires first removes the break callback of the wait.
C11_BreakCancelsWait ==
    [][/\ BreaksWait =>
            /\ timer' = NoTimer
            /\ ret' = Thrown(BreakRequested)
            /\ TopFn(stack') = "execute" /\ Len(stack') = 1
            /\ calls' = calls
       /\ TimerGoesOff => logo'.onbreak = Null]_vars

\* a run broken in its wait has settled with the break error, having
\* invoked nothing after the wait
C11_Witness ==
    /\ Settled /\ outcome = BreakRequested /\ run.brokeAt = "waiting"
    /\ ~timer.armed
    /\ Len(calls) = 1 /\ calls[1].name = sWait

-----------------------------------------------------------------------------
(* The scope stack and the context stack. *)

\* the activations of procedures that are in their try block
RECURSIVE Activations(_)
Activations(st) ==
    IF st = <<>> THEN 0
    ELSE (IF Head(st).fn = "func" /\ Head(st).pc = "await" THEN 1 ELSE 0)
         + Activations(Tail(st))

\* C12: each activation of a procedure holds exactly one Scope and one
\* Context above the global ones, and gives both back when it is left, by
\* a return, by an error or by the break error; so that when execute() has
\* settled the scope stack holds the global scope alone and the context
\* stack the global context alone.
C12_OneScopeAndContextPerActivation ==
    /\ Len(logo.scopes) = 1 + Activations(stack)
    /\ Len(logo.contexts) = 1 + Activations(stack)
    /\ logo.scopes[1] = 1
    /\ Settled => logo.scopes = <<1>> /\ Len(logo.contexts) = 1

\* a procedure was entered, and was left by an error raised in its body
C12_Witness ==
    /\ Settled /\ outcome = "SyntaxError" /\ run.source = Program(MissingArgInBody)
    /\ \E k \in DOMAIN calls : calls[k].name = <<"f">>
    /\ logo.scopes = <<1>> /\ Len(heap) > 1

-----------------------------------------------------------------------------
(* What the evaluation of a program invokes, and how execute() settles. *)

\* the run of the program p
Runs(p) == run.source = Program(p)

\* the procedure `name` has been invoked with the arguments `args`
Invoked(name, args) ==
    \E k \in DOMAIN calls : calls[k] = [name |-> name, args |-> args]

\* how many times the procedure `name` has been invoked
Invocations(name) == Cardinality({k \in DOMAIN calls : calls[k].name = name})

\* C13: an output or a stop executed in a block of if or of repeat ends the
\* activation of the procedure the block stands in, not the block alone:
\* nothing is invoked in a context that is stopped; f of
\* `to f if true [ output 1 ] output 2 end` returns 1 and its `output 2` is
\* never executed; g of `to g repeat 2 [ up stop ] left 3 end` runs its
\* block once and never reaches `left 3`.
C13_OutputInBlockEndsProcedure ==
    /\ At("performCall", {"start", "passed"})
          => ~logo.contexts[Len(logo.contexts)].stop
    /\ Runs(OutputInIf) =>
          /\ ~Invoked(sOutput, <<Num(2)>>)
          /\ Settled /\ Invocations(<<"f">>) > 0 =>
                /\ outcome = "success"
                /\ Invoked(sLeft, <<Num(1)>>)
    /\ Runs(StopInRepeat) =>
          /\ Invocations(sLeft) = 0
          /\ Invocations(sUp) <= 1
          /\ Settled /\ Invocations(<<"g">>) > 0 =>
                /\ outcome = "success"
                /\ Invocations(sUp) = 1

\* f has returned 1 from the block of its if
C13_Witness ==
    /\ Settled /\ Runs(OutputInIf) /\ outcome = "success"
    /\ Invoked(sOutput, <<Num(1)>>) /\ Invoked(sLeft, <<Num(1)>>)

\* C14: a `stop` or an `output 1` executed at top level, where no
\* procedure is active, makes execute() fail with a SyntaxError.
C14_StopAtTopLevelIsAnError ==
    /\ Settled /\ Runs(TopStop) /\ Invocations(sStop) > 0 => outcome = "SyntaxError"
    /\ Settled /\ Runs(TopOutput) /\ Invocations(sOutput) > 0 => outcome = "SyntaxError"

\* the declared arity of the procedure bound to `name` in the global scope
Arity(name) == funcLength(bindingValue(heap, 1, name))

\* the evaluation of the run has come to a call: the first of the program
\* at the least
CallReached == run.entered > 0

\* C15: a call in fixed form whose arguments cannot be gathered is a
\* structural error and the procedure is not invoked: nothing is ever
\* invoked with fewer arguments than its arity; `left`, `left difference 3`
\* and `to f left end f` end before the arguments are there, and `left up`
\* has an argument that produces no value.
C15_UnsatisfiedFixedCallIsAnError ==
    /\ \A k \in DOMAIN calls : Len(calls[k].args) >= Arity(calls[k].name)
    /\ Settled /\ CallReached /\ (Runs(MissingArg) \/ Runs(MissingNestedArg)) =>
          outcome = "SyntaxError" /\ calls = <<>>
    /\ Settled /\ CallReached /\ Runs(NoValueArg) =>
          /\ outcome = "SyntaxError"
          /\ calls = <<[name |-> sUp, args |-> <<>>]>>
    /\ Settled /\ Runs(MissingArgInBody) /\ Invocations(<<"f">>) > 0 =>
          outcome = "SyntaxError" /\ Invocations(sLeft) = 0

\* a run of `left up` has invoked up, found no value and failed
C15_Witness ==
    /\ Settled /\ Runs(NoValueArg) /\ outcome = "SyntaxError"
    /\ Invocations(sUp) = 1 /\ Invocations(sLeft) = 0

\* C16: a call in parentheses with k arguments is made, with all k of
\* them, when k is the arity or more, and is a structural error that invokes
\* nothing when k is less than the arity or the `)` is missing: for left,
\* of arity 1, `( left 1 )` and `( left 1 2 )` against `( left )` and
\* `( left 1`.
C16_ParenthesizedCall ==
    /\ Settled /\ CallReached /\ Runs(VariadicExact) =>
          /\ outcome = "success"
          /\ calls = <<[name |-> sLeft, args |-> <<Num(1)>>]>>
    /\ Settled /\ CallReached /\ Runs(VariadicMore) =>
          /\ outcome = "success"
          /\ calls = <<[name |-> sLeft, args |-> <<Num(1), Num(2)>>]>>
    /\ Settled /\ CallReached /\ (Runs(VariadicFew) \/ Runs(VariadicOpen)) =>
          outcome = "SyntaxError" /\ calls = <<>>

\* left has been invoked with more arguments than its arity
C16_Witness ==
    /\ Settled /\ Runs(VariadicMore) /\ outcome = "success"
    /\ Invoked(sLeft, <<Num(1), Num(2)>>)

\* C17: execute() resolves only when the evaluation of the program returns
\* no value; a program that leaves one, as the literal `32` does and as
\* `left 1 2` does after left has taken its one argument, is rejected with
\* SyntaxError.
C17_UnconsumedValueIsAnError ==
    [][/\ At("execute", {"await"}) /\ outcome' = "success" =>
            ret.k = "return" /\ isUndefined(ret.v)
       /\ At("execute", {"await"}) /\ ret.k = "return" /\ ~isUndefined(ret.v) =>
            outcome' = "SyntaxError"
       /\ Settled' /\ run'.values > 0 /\ run'.source = Program(BareLiteral) =>
            outcome' = "SyntaxError" /\ calls' = <<>>
       /\ Settled' /\ run'.values > 0 /\ run'.source = Program(ExtraArg) =>
            /\ outcome' = "SyntaxError"
            /\ calls' = <<[name |-> sLeft, args |-> <<Num(1)>>]>>]_vars

\* `left 1 2` has invoked left with 1 and was rejected for the 2
C17_Witness ==
    /\ Settled /\ Runs(ExtraArg) /\ outcome = "SyntaxError"
    /\ run.values = 2 /\ Invoked(sLeft, <<Num(1)>>)

\* C18: in an instruction list that is evaluated, at top level, as the body
\* of a procedure or as a block, nothing may follow an element that has
\* produced a value: the block `[ 1 2 3 ]`, the program `1 2` and the body
\* of `to h 1 2 end` raise SyntaxError when the 1 has been evaluated, the
\* 2 never being evaluated (the literals evaluated are the arguments of if
\* and of to, and the 1), while the block `[ 3 ]` returns its 3.
C18_NothingFollowsAValue ==
    /\ Settled /\ Runs(BlockValue) /\ Invocations(sIf) > 0 =>
          /\ outcome = "success"
          /\ Invoked(sLeft, <<Num(3)>>)
    /\ Runs(BlockValues) => Invocations(sLeft) = 0 /\ run.values <= 2
    /\ Settled /\ Runs(BlockValues) /\ Invocations(sIf) > 0 =>
          outcome = "SyntaxError" /\ run.values = 2
    /\ Runs(TopValues) => run.values <= 1
    /\ Settled /\ Runs(TopValues) /\ run.values > 0 => outcome = "SyntaxError"
    /\ Runs(BodyValues) => run.values <= 3
    /\ Settled /\ Runs(BodyValues) /\ Invocations(<<"h">>) > 0 =>
          outcome = "SyntaxError" /\ run.values = 3

\* the block `[ 1 2 3 ]` was evaluated and has raised the error after its 1
C18_Witness ==
    /\ Settled /\ Runs(BlockValues) /\ Invocations(sIf) > 0
    /\ outcome = "SyntaxError" /\ run.values = 2

\* the calls of a run but those of `to`, whose argument is the text of the
\* body itself
Invoking(cs) == SelectSeq(cs, LAMBDA c : c.name # sTo)

\* the evaluation left to itself, from one checkpoint, call or settling to
\* the next
RECURSIVE runThrough(_, _)
runThrough(w, fuel) ==
    IF fuel = 0 \/ ~Runnable(w) THEN w
    ELSE CHOOSE r \in {runThrough(s, fuel - 1) : s \in {Advance(Step(w), MaxSteps)}} : TRUE

\* the run of the program p on the interpreter as the present run found it
RunOf(p) ==
    runThrough(Advance(executeBegin(start, Program(p)), MaxSteps), MaxSteps)

\* C19: an instruction without parentheses is grouped by the declared
\* arities alone, each call taking exactly as many argument expressions as
\* its arity, nested calls among them: the program
\* `to p :n output product :n difference :n 1 end left p 3`
\* invokes the procedures that its fully parenthesized form invokes, with
\* the same arguments and in the same order, and settles as it does.
C19_GroupedByArity ==
    Runs(Implicit) =>
        /\ IsPrefix(Invoking(calls), Invoking(RunOf(Explicit).calls))
        /\ Settled =>
              /\ Invoking(calls) = Invoking(RunOf(Explicit).calls)
              /\ outcome = RunOf(Explicit).outcome

\* the program without parentheses has made its nested calls, innermost
\* first, and left has received the product
C19_Witness ==
    /\ Settled /\ Runs(Implicit) /\ outcome = "success"
    /\ [k \in DOMAIN Invoking(calls) |-> Invoking(calls)[k].name]
          = <<<<"p">>, sDifference, sProduct, sOutput, sLeft>>
    /\ Invoked(sLeft, <<Num(6)>>)
    /\ RunOf(Explicit).outcome = "success"

\* the global scope has a binding of its own for `name`
GlobalBinding(name) == \E k \in DOMAIN heap[1].bindings : heap[1].bindings[k].name = name

\* C20: a make of a name that has no binding in sight, executed in a
\* procedure, binds the name in the global scope and not in the scope of
\* the activation: after m of `to m make "a" 5 end` has returned, `:a` at top
\* level is 5.
C20_MakeCreatesAGlobal ==
    Settled /\ Runs(MakeInBody) /\ Invocations(sMake) > 0 =>
        /\ GlobalBinding(<<"a">>)
        /\ outcome = "success"
        /\ Invoked(sLeft, <<Num(5)>>)

-----------------------------------------------------------------------------
(* Scopes: what a name means where. *)

\* C21: scoping is dynamic: the parameter x of the activation of p, in
\* `to q left :x end to p :x q end p 4`, is visible by its name to the q
\* that p calls, which reads 4 from it.
C21_DynamicScope ==
    Settled /\ Runs(DynamicScope) /\ Invocations(<<"q">>) > 0 =>
        /\ outcome = "success"
        /\ Invoked(sLeft, <<Num(4)>>)

\* the value the global scope binds to `name`
GlobalValue(name) == bindingValue(heap, 1, name)

\* C22: the parameters of a procedure are locals of its activation: in
\* `make "x" 1 to p :x make "x" 2 end p 3 left :x` the make inside p
\* changes the x of the activation, and the global x is still 1 when p has
\* returned.
C22_ParametersAreLocals ==
    /\ Runs(ArgsAreLocals) /\ Invocations(sMake) > 0 =>
          GlobalBinding(<<"x">>) /\ GlobalValue(<<"x">>) = Num(1)
    /\ Settled /\ Runs(ArgsAreLocals) /\ Invocations(<<"p">>) > 0 =>
          /\ outcome = "success"
          /\ Invoked(sMake, <<Str(<<"x">>), Num(2)>>)
          /\ Invoked(sLeft, <<Num(1)>>)

\* p has made its x 2 and returned, and left has received the global 1
C22_Witness ==
    /\ Settled /\ Runs(ArgsAreLocals) /\ outcome = "success"
    /\ Invoked(<<"p">>, <<Num(3)>>) /\ Invoked(sMake, <<Str(<<"x">>), Num(2)>>)
    /\ Invoked(sLeft, <<Num(1)>>)

\* C23: variables and procedures have namespaces of their own: after
\* `to f up end make "f" 1`, calling f still runs the procedure, and after
\* `make "g" 1 to g up end`, `:g` is still 1.
C23_SeparateNamespaces ==
    /\ Settled /\ Runs(MakeOverProcedure) /\ Invocations(sMake) > 0 =>
          /\ outcome = "success"
          /\ Invocations(<<"f">>) = 1 /\ Invocations(sUp) = 1
    /\ Settled /\ Runs(ToOverVariable) /\ Invocations(sMake) > 0 =>
          /\ outcome = "success"
          /\ Invoked(sLeft, <<Num(1)>>)

\* C24: a procedure defined with `to` while another procedure runs is global:
\* once the defining procedure has returned, the new procedure can be called
\* by name from the top level and from any other procedure.
C24_InnerProcedureIsGlobal ==
    /\ Settled /\ Runs(ToInBody) /\ Invocations(<<"a">>) > 0 =>
          /\ outcome = "success"
          /\ Invocations(<<"b">>) = 1 /\ Invoked(sLeft, <<Num(1)>>)
    /\ Settled /\ Runs(ToInBodyCalled) /\ Invocations(<<"c">>) > 0 =>
          /\ outcome = "success"
          /\ Invocations(<<"d">>) = 1 /\ Invoked(sLeft, <<Num(1)>>)

-----------------------------------------------------------------------------
(* The reader: what tokenize and parse make of a source text. *)

\* what parse makes of the tokens of the source the current run was given
ParsedSource == parse(tokenize(Source(run.source)).tokens)

\* C25: `to NAME :a1 ... :ak body end` is rewritten, at the top level and
\* inside a bracketed list, into `(`, `to`, the quoted NAME, the quoted
\* a1..ak, one nested list holding the body and `)`; parsing then goes on as
\* before the `to`, and bracketed lists in the body nest.
C25_ToIsRewritten ==
    /\ Runs(ToWithArgs) =>
          /\ ParsedSource.err = ""
          /\ ParsedSource.parsed =
                <<Str(<<"(">>), Str(sTo), Str(<<"\"", "f">>), Str(<<"\"", "a">>),
                  Str(<<"\"", "b">>),
                  Lst(<<Str(sUp), Lst(<<Lst(<<Num(1)>>), Num(2)>>)>>),
                  Str(<<")">>), Str(sUp)>>
    /\ Runs(ToInList) =>
          /\ ParsedSource.err = ""
          /\ ParsedSource.parsed =
                <<Str(sRepeat), Num(1),
                  Lst(<<Str(<<"(">>), Str(sTo), Str(<<"\"", "g">>),
                        Lst(<<Str(sUp)>>), Str(<<")">>)>>),
                  Str(sLeft), Num(1)>>
    /\ Runs(ToBeforeList) =>
          /\ ParsedSource.err = ""
          /\ ParsedSource.parsed =
                <<Str(<<"(">>), Str(sTo), Str(<<"\"", "h">>),
                  Lst(<<Lst(<<Num(1)>>)>>), Str(<<")">>), Str(sUp)>>

\* what tokenize or parse threw on the source the current run was given
SourceError ==
    LET t == tokenize(Source(run.source))
    IN  IF t.err # "" THEN t.err ELSE parse(t.tokens).err

Malformed == {UnclosedList, UnclosedString, ToWithoutEnd, ToWithoutBody}

\* C26: a source with an unterminated `[`, an unterminated string literal or
\* a `to` without its `end` fails with a syntax error, and nothing of it is
\* evaluated.
C26_MalformedSourceIsASyntaxError ==
    \A p \in Malformed :
        Runs(p) => /\ SourceError = "SyntaxError"
                   /\ outcome = "SyntaxError"
                   /\ calls = <<>>

\* C27: every numeric literal [-]digits[.digits][e[+|-]digits] that is
\* followed by whitespace, a delimiter or the end of the input is accepted
\* and parses to one number.
C27_NumericLiterals ==
    /\ Runs(Numbers) =>
          /\ SourceError = ""
          /\ ParsedSource.parsed =
                <<Str(<<"(">>), Str(sLeft), Num(1983), Num(0 - 273), Num(100),
                  Frac(1, 2), Str(<<")">>)>>
    /\ Runs(Fractional) =>
          SourceError = "" /\ ParsedSource.parsed = <<Str(sLeft), Frac(986, 1)>>
    /\ Runs(PositiveExponent) =>
          SourceError = "" /\ ParsedSource.parsed = <<Str(sLeft), Num(100)>>
    /\ Runs(NegativeDelimited) =>
          /\ SourceError = ""
          /\ ParsedSource.parsed =
                <<Str(<<"(">>), Str(sLeft), Num(0 - 273), Str(<<")">>)>>

\* C28: a string literal starts at a double quote and ends at the next
\* whitespace or delimiter, with no closing quote; a backslash makes the
\* following character part of it; evaluating it yields the text without the
\* quote and the backslashes: `"a` gives a, `"hi\ there` gives `hi there`.
C28_StringEndsAtWhitespace ==
    /\ \A p \in {UnclosedString, OpenEscaped} : Runs(p) => SourceError = ""
    /\ Settled /\ Runs(UnclosedString) /\ run.n = 1 =>
          outcome = "success" /\ Invoked(sLeft, <<Str(<<"a">>)>>)
    /\ Settled /\ Runs(OpenEscaped) /\ run.n = 1 =>
          /\ outcome = "success"
          /\ Invoked(sLeft, <<Str(<<"h", "i", " ", "t", "h", "e", "r", "e">>)>>)

-----------------------------------------------------------------------------
(* Lists: equality, and the one empty list. *)

\* C29: List.equal is reflexive and symmetric, and true exactly of two lists
\* of the same length whose elements are pairwise equal, in order and
\* recursively; lists of different lengths are never equal, not even lists
\* of empty lists.
C29_ListEqualIsStructural ==
    /\ Proper(lists.nodes) /\ ~lists.hung =>
          \A a, b \in DOMAIN lists.nodes :
              /\ equal(lists.nodes, ListRef(a), ListRef(b))
                    = Same(lists.nodes, ListRef(a), ListRef(b))
              /\ equal(lists.nodes, ListRef(a), ListRef(b))
                    = equal(lists.nodes, ListRef(b), ListRef(a))
              /\ equal(lists.nodes, ListRef(a), ListRef(a))
    /\ lists.compared # <<>> =>
          lists.compared[3] = Same(lists.nodes, ListRef(lists.compared[1]),
                                   ListRef(lists.compared[2]))

\* C30: there is one empty list, List.empty, whose head and tail are itself,
\* whatever is done with push, concat, attach, from, reverse, filter and map;
\* no other record lies on a cycle of tails, and no second empty list is
\* ever constructed.
C30_OneEmptyList ==
    ~lists.hung =>
        /\ Intact(lists.nodes)
        /\ \A n \in 2..Len(lists.nodes) :
              /\ ~OnCycle(lists.nodes, n)
              /\ lists.nodes[n] # [head |-> ListRef(n), tail |-> n]

-----------------------------------------------------------------------------
(* Infix operators. *)

\* C31: binary infix operators are evaluated with precedence, `*` and `/`
\* before `+` and `-`, and parentheses override it: `1 + 2` is 3,
\* `3 * 4 + 2` is 14, `( 2 + 3 ) * 4` is 20.
C31_InfixPrecedence ==
    /\ \A p \in {InfixSum, InfixPrecedence, InfixParens} :
          Runs(p) => SourceError = ""
    /\ Settled /\ Runs(InfixSum) /\ run.n = 1 =>
          outcome = "success" /\ Invoked(sLeft, <<Num(3)>>)
    /\ Settled /\ Runs(InfixPrecedence) /\ run.n = 1 =>
          outcome = "success" /\ Invoked(sLeft, <<Num(14)>>)
    /\ Settled /\ Runs(InfixParens) /\ run.n = 1 =>
          outcome = "success" /\ Invoked(sLeft, <<Num(20)>>)

\* C32: the argument of a prefix call takes the infix operators that follow
\* it before an outer infix expression goes on: with y the identity and a
\* 8, `2 * y :a + 9` is 2 * y (8 + 9) = 34, while `2 * :a + 9` is 25.
C32_CallArgumentTakesInfix ==
    /\ \A p \in {InfixAfterCall, InfixFlat} : Runs(p) => SourceError = ""
    /\ Settled /\ Runs(InfixAfterCall) /\ run.n = 1 =>
          outcome = "success" /\ Invoked(sLeft, <<Num(34)>>)
    /\ Settled /\ Runs(InfixFlat) /\ run.n = 1 =>
          outcome = "success" /\ Invoked(sLeft, <<Num(25)>>)

-----------------------------------------------------------------------------
(* What a word in command position may call. *)

\* C33: a value bound only as a variable is never invoked: the host
\* procedure up, passed as the argument h of `to k :h h end k :up`, is not
\* called by the word h in the body of k, and neither by the word j after
\* `make "j" :up`.
C33_VariablesAreNotCallable ==
    /\ Runs(PassFunction) => Invocations(sUp) = 0
    /\ Runs(CallVariable) => Invocations(sUp) = 0

-----------------------------------------------------------------------------
(* ifelse. *)

\* C34: `ifelse cond thenBlock elseBlock` evaluates exactly one of its
\* blocks, thenBlock when cond is true and elseBlock otherwise, and raises
\* no error of its own: `ifelse true [ left 1 ] [ left 2 ]` calls left
\* with 1 only, and with the condition `difference 1 1` with 2 only.
C34_IfelseEvaluatesOneBlock ==
    /\ Settled /\ Runs(IfelseThen) /\ Invocations(sIfelse) > 0 =>
          /\ outcome = "success"
          /\ Invoked(sLeft, <<Num(1)>>) /\ ~Invoked(sLeft, <<Num(2)>>)
    /\ Settled /\ Runs(IfelseElse) /\ Invocations(sIfelse) > 0 =>
          /\ outcome = "success"
          /\ Invoked(sLeft, <<Num(2)>>) /\ ~Invoked(sLeft, <<Num(1)>>)

-----------------------------------------------------------------------------
(* Templates. *)

\* the activations of runTemplate that are in their try block
RECURSIVE Templates(_)
Templates(st) ==
    IF st = <<>> THEN 0
    ELSE (IF Head(st).fn = "runTemplate" /\ Head(st).pc = "await" THEN 1 ELSE 0)
         + Templates(Tail(st))

\* the activation of evaluate that the activation k of the stack runs in
Invoker(k) ==
    CHOOSE j \in 1..(k - 1) :
        /\ stack[j].fn = "evaluate"
        /\ \A i \in (j + 1)..(k - 1) : stack[i].fn # "evaluate"

\* C35: applying a list template pushes one new Scope whose parent is the
\* current scope, binds the names of the template there to the arguments
\* by position, shadowing and never changing the outer bindings of these
\* names, evaluates the body in the Context of the activation that applies
\* the template, so that an output in the template ends that procedure, and
\* pops that Scope however the body is left.
C35_TemplateScope ==
    /\ Len(logo.scopes) = 1 + Activations(stack) + Templates(stack)
    /\ Len(logo.contexts) = 1 + Activations(stack)
    /\ Settled => logo.scopes = <<1>>
    /\ \A k \in DOMAIN stack :
          /\ stack[k].fn = "runTemplate" /\ stack[k].pc = "await"
          /\ k < Len(stack) /\ stack[k + 1].fn = "evaluate"
          => /\ heap[stack[k + 1].scope].parent = stack[Invoker(k)].scope
             /\ stack[k + 1].scope # stack[Invoker(k)].scope
             /\ stack[k + 1].ctx = stack[Invoker(k)].ctx
             /\ heap[stack[k + 1].scope].bindings
                   = [n \in 1..Len(Head(stack[k].func.l).l) |->
                         [name |-> Head(stack[k].func.l).l[n].s,
                          value |-> argAt(stack[k].args, n)]]
    /\ Settled /\ Runs(TemplateShadows) /\ Invocations(sApply) > 0 =>
          /\ outcome = "success"
          /\ Invoked(sLeft, <<Num(2)>>) /\ Invoked(sLeft, <<Num(1)>>)
          /\ GlobalValue(<<"x">>) = Num(1)
    /\ Runs(TemplateOutputs) =>
          /\ ~Invoked(sLeft, <<Num(2)>>)
          /\ Settled /\ Invocations(<<"t">>) > 0 =>
                outcome = "success" /\ Invoked(sLeft, <<Num(7)>>)
    /\ Settled /\ Runs(TemplateThrows) /\ Invocations(sApply) > 0 =>
          outcome = "SyntaxError"

\* the body of the template `[ [ x ] left :x ]` is at its call of left: x
\* is 2 in the scope of the template and 1 in the global scope
C35_Witness ==
    /\ Runs(TemplateShadows) /\ Templates(stack) = 1 /\ Len(logo.scopes) = 2
    /\ bindingValue(heap, logo.scopes[2], <<"x">>) = Num(2)
    /\ GlobalValue(<<"x">>) = Num(1)
    /\ Top(World).fn = "performCall" /\ Top(World).args = <<Num(2)>>

\* C36: a list template with more names than there are arguments raises
\* the ReferenceError 'Not enough arguments given to template' before its
\* body is evaluated, and no name of a template is bound to a missing
\* argument: `apply [ [ x ] left 1 ] [ ]` and
\* `apply [ [ x y ] left 1 ] [ ]` fail and never call left.
C36_TemplateNeedsItsArguments ==
    /\ \A k \in DOMAIN stack :
          stack[k].fn = "runTemplate" /\ stack[k].pc = "await"
          => Len(Head(stack[k].func.l).l) <= Len(stack[k].args)
    /\ \A p \in {TemplateShort, TemplateShorter} :
          /\ Runs(p) => Invocations(sLeft) = 0
          /\ Settled /\ Runs(p) /\ Invocations(sApply) > 0 =>
                outcome = "ReferenceError"

-----------------------------------------------------------------------------
(* The Context of a callee. *)

\* C37: an output or a stop executed in a procedure touches the Context
\* of that activation alone: no step changes a Context below the current
\* one, the Context of an activation that awaits a call is neither stopped
\* nor has an output, the value of the call is the output of the callee
\* and the caller goes on with its next instruction: `left r 3`, with r
\* the factorial, calls left with 6 after four activations of r, and v of
\* `to u stop end to v u up end v` calls up after u has stopped.
C37_OutputStaysInTheCallee ==
    /\ [][\A i \in 1..(Len(logo.contexts) - 1) :
             i <= Len(logo.contexts') => logo.contexts'[i] = logo.contexts[i]]_vars
    /\ [](\A i \in 2..(Len(logo.contexts) - 1) :
             ~logo.contexts[i].stop /\ isUndefined(logo.contexts[i].output))
    /\ [](Settled /\ Runs(Factorial) /\ Invocations(<<"r">>) > 0 =>
             /\ outcome = "success"
             /\ Invocations(<<"r">>) = 4
             /\ Invoked(sLeft, <<Num(6)>>) /\ Invocations(sLeft) = 1)
    /\ [](Settled /\ Runs(CalleeStops) /\ Invocations(<<"v">>) > 0 =>
             /\ outcome = "success"
             /\ Invocations(sStop) = 1 /\ Invocations(sUp) = 1)

\* the innermost r of the factorial has returned 1 to the r above it, whose
\* Context is still running, and that one is about to multiply
C37_Witness ==
    /\ Runs(Factorial) /\ Invoked(sOutput, <<Num(1)>>)
    /\ Len(logo.contexts) = 4
    /\ ~logo.contexts[4].stop /\ isUndefined(logo.contexts[4].output)
    /\ Top(World).fn = "performCall" /\ Top(World).func = Native(sProduct)
    /\ Top(World).args = <<Num(1), Num(1)>>

-----------------------------------------------------------------------------
(* The global Context from one run to the next. *)

\* C38: every execute() starts with the global Context running and without
\* output: as long as a run has invoked nothing its global Context is not
\* stopped, and no run skips its instructions for a stop or an output of an
\* earlier run: `to u stop end to v u up end v`, when it succeeds, has
\* called up.
C38_RunsStartUnstopped ==
    /\ logo.running /\ calls = <<>> =>
          ~logo.contexts[1].stop /\ isUndefined(logo.contexts[1].output)
    /\ Settled /\ Runs(CalleeStops) /\ outcome = "success" =>
          Invocations(sUp) = 1

-----------------------------------------------------------------------------
(* The host calls that are in order. *)

\* C39: pause() of a run that is not paused, continue() of a run that is
\* paused and break() of a run that has no break requested return without
\* throwing, continue() before the evaluation has come to a checkpoint and
\* break() of a run held at a checkpoint among them.
C39_HostCallsReturn ==
    [][/\ (hostResult'.op = "pause" /\ logo.running /\ ~logo.paused)
            => hostResult'.res = "ok"
       /\ (hostResult'.op = "continue" /\ logo.running /\ logo.paused)
            => hostResult'.res = "ok"
       /\ (hostResult'.op = "break" /\ logo.running /\ ~logo.breakFlag)
            => hostResult'.res = "ok"]_vars

-----------------------------------------------------------------------------
(* The cursor of a ListBuilder. *)

\* C40: after any calls of push, concat and attach, builder.end is the last
\* record of builder.list, List.empty when nothing was added, and
\* builder.list holds every value pushed and attached, in order, also when
\* an empty list is attached and values are pushed after it.
C40_BuilderEndIsLast ==
    /\ [](~lists.hung /\ Proper(lists.nodes) =>
             lists.builder.end = listEnd(lists.nodes, lists.builder.list))
    /\ [][Proper(lists.nodes) /\ Proper(lists'.nodes) /\ ~lists'.hung =>
             /\ \A val \in Values :
                   lists' = push(Before, val) =>
                      Elements(lists'.nodes, lists'.builder.list)
                         = Append(Elements(lists.nodes, lists.builder.list), val)
             /\ \A list \in DOMAIN lists.nodes :
                   lists' \in {attach(Before, list), concat(Before, list)} =>
                      Elements(lists'.nodes, lists'.builder.list)
                         = Elements(lists.nodes, lists.builder.list)
                              \o Elements(lists.nodes, list)]_vars

=============================================================================
